---- MODULE Spec2Model ----
(***************************************************************************)
(* Model of the hybrid resume matching engine of HR-Agentic-System:        *)
(* HybridMatcher (services/hybrid_matcher.py), HybridSearchService         *)
(* (services/hybrid_search_service.py), the delete_resume route            *)
(* (routes/hybrid_search.py) and the judge of                              *)
(* services/resume_evaluator.py.                                           *)
(*                                                                         *)
(* The persisted Chroma collection of ./chroma_db is one shared sequence   *)
(* of entries: every HybridMatcher built on the directory reads and writes *)
(* the same collection.  Chroma.from_documents on a directory that already *)
(* holds the collection adds the given documents to it under fresh ids.    *)
(***************************************************************************)
EXTENDS Integers, Sequences, FiniteSets, TLC

\* ------------------------------------------------------------------ bounds
\* Largest number of chunks the persisted collection, or the documents list
\* of a matcher, may hold.
MaxStore == 5
\* Largest number of documents in one index_documents call.
MaxBatch == 2
\* Largest k of a chunk-level hybrid search issued directly on a matcher.
MaxK == 3

\* ------------------------------------------------------- program constants
\* vector_weight, in tenths (hybrid_matcher.py: vector_weight = 0.7).
VectorWeight == 7
\* k given to both retrievers of the ensemble when an index is (re)built.
EnsembleK == 10
\* The constant c of weighted reciprocal rank fusion.
RrfC == 60

\* -------------------------------------------------------------- documents
NoCid == "none"
\* bm25_retriever is None (a built retriever has k >= 1)
None == [docs |-> <<>>, k |-> 0]

\* The documents handed to index_documents: page text and the candidate_id
\* of the metadata (NoCid: the key is absent).  The other metadata keys
\* (filename, source type, path) are set by the loader on every document and
\* play no part in attribution.  The text identifies the document.
InputDocs ==
  { [text |-> "A", cid |-> "c1"],
    [text |-> "B", cid |-> "c2"],
    [text |-> "C", cid |-> NoCid] }

\* The resumes uploaded to the serving deployment (SpecServe): longer texts.
ServeDocs ==
  { [text |-> "C", cid |-> NoCid],
    [text |-> "D", cid |-> "c1"],
    [text |-> "E", cid |-> "c2"] }

\* The resumes of the deployment with one long resume (SpecOverfetch): the
\* text of G is cut into six chunks.
OverfetchDocs ==
  { [text |-> "B", cid |-> "c2"],
    [text |-> "C", cid |-> NoCid],
    [text |-> "G", cid |-> "c1"] }

Cands == {"c1", "c2"}

\* Number of chunks RecursiveCharacterTextSplitter cuts a text into.
NParts(t) ==
  IF t = "A" THEN 2 ELSE IF t \in {"D", "E"} THEN 3
  ELSE IF t = "G" THEN 6 ELSE 1

\* candidate_id of the document with text t.
DocCid(t) ==
  (CHOOSE d \in InputDocs \cup ServeDocs \cup OverfetchDocs : d.text = t).cid

Batches == UNION { [1..n -> InputDocs] : n \in 1..MaxBatch }

\* ---------------------------------------------------------------- helpers
Range(s) == { s[i] : i \in DOMAIN s }

SelectIdx(s, keep(_)) ==
  LET F[i \in 0..Len(s)] ==
        IF i = 0 THEN <<>>
        ELSE IF keep(s[i]) THEN Append(F[i-1], s[i]) ELSE F[i-1]
  IN F[Len(s)]

Take(s, n) == IF Len(s) <= n THEN s ELSE SubSeq(s, 1, n)

\* ---------------------------------------------------------------- chunking
\* text_splitter.split_documents: every chunk gets a copy of the metadata of
\* the document it was cut from.
SplitOne(d) ==
  [p \in 1..NParts(d.text) |-> [txt |-> d.text, part |-> p, cid |-> d.cid]]

RECURSIVE SplitDocuments(_)
SplitDocuments(docs) ==
  IF docs = <<>> THEN <<>>
  ELSE SplitOne(Head(docs)) \o SplitDocuments(Tail(docs))

\* number of chunks a batch is cut into
RECURSIVE NChunks(_)
NChunks(docs) ==
  IF docs = <<>> THEN 0 ELSE NParts(Head(docs).text) + NChunks(Tail(docs))

\* Mutant of FillMetadata: the key of the first document is written into
\* every chunk, present or not.
FillMetadataOverwrite(docs, chunks) ==
  IF docs # <<>> /\ chunks # <<>>
  THEN [i \in DOMAIN chunks |->
          IF docs[1].cid # NoCid
          THEN [chunks[i] EXCEPT !.cid = docs[1].cid]
          ELSE chunks[i]]
  ELSE chunks

\* "Copy metadata from original document if not present": each key of
\* documents[0].metadata that a chunk lacks is copied into the chunk.
FillMetadata(docs, chunks) ==
  IF docs # <<>> /\ chunks # <<>>
  THEN [i \in DOMAIN chunks |->
          IF chunks[i].cid = NoCid /\ docs[1].cid # NoCid
          THEN [chunks[i] EXCEPT !.cid = docs[1].cid]
          ELSE chunks[i]]
  ELSE chunks

\* ------------------------------------------------------- the collection
StoreChunks(st) == [i \in DOMAIN st |-> st[i].ch]

StoreIds(st) == { st[i].id : i \in DOMAIN st }

\* Fresh ids (uuid4) for n new entries: the least ids that no entry and no
\* running operation holds.
RECURSIVE FreshIds(_, _)
FreshIds(used, n) ==
  IF n = 0 THEN <<>>
  ELSE LET i == CHOOSE x \in 1..(Cardinality(used) + 1) : x \notin used
       IN <<i>> \o FreshIds(used \cup {i}, n - 1)

\* Chroma.from_documents(documents, persist_directory): the chunks are added
\* to the collection of the directory under fresh ids.
AddChunks(st, held, chunks) ==
  LET ids == FreshIds(StoreIds(st) \cup held, Len(chunks))
  IN st \o [i \in DOMAIN chunks |-> [id |-> ids[i], ch |-> chunks[i]]]

\* collection.delete(ids)
DeleteIds(st, ids) == SelectIdx(st, LAMBDA e : e.id \notin ids)

\* The ids are uuids: only their identity matters.  While no running
\* operation holds an id, the entries are renumbered by position.
Canon(st, held) ==
  IF held = {} THEN [i \in DOMAIN st |-> [id |-> i, ch |-> st[i].ch]] ELSE st

\* Mutant of IdsToDelete: an entry without candidate_id matches as well.
IdsToDeleteWithMissing(st, c) ==
  { st[i].id : i \in { j \in DOMAIN st : st[j].ch.cid \in {c, NoCid} } }

\* "Find all document IDs that match this candidate_id"
IdsToDelete(st, c) ==
  { st[i].id : i \in { j \in DOMAIN st : st[j].ch.cid = c } }

\* ------------------------------------------------------------- a matcher
\* HybridMatcher.__init__: no store handle, no retrievers, no documents.
FreshMatcher ==
  [ vector_store |-> FALSE,
    documents |-> <<>>,
    bm25_retriever |-> None,
    ensemble_retriever |-> FALSE ]

\* BM25Retriever.from_documents(docs) followed by ".k = 10"
NewBm25(docs) == [docs |-> docs, k |-> EnsembleK]

\* all_chunks: with a store handle, what collection.get() returns followed
\* by the new chunks; without one, the new chunks.
AllChunks(st, mr, docs) ==
  IF mr.vector_store
  THEN StoreChunks(st) \o FillMetadata(docs, SplitDocuments(docs))
  ELSE FillMetadata(docs, SplitDocuments(docs))

\* Chroma.from_documents(all_chunks), then the documents list, the BM25
\* retriever and the ensemble retriever.
IndexWrite(st, held, mr, all_chunks) ==
  [ store |-> AddChunks(st, held, all_chunks),
    matcher |->
      [ vector_store |-> TRUE,
        documents |->
          IF mr.vector_store /\ mr.documents # <<>>
          THEN mr.documents \o all_chunks ELSE all_chunks,
        bm25_retriever |->
          NewBm25(IF mr.vector_store /\ mr.documents # <<>>
                  THEN mr.documents \o all_chunks ELSE all_chunks),
        ensemble_retriever |-> TRUE ] ]

\* HybridMatcher.index_documents on matcher record mr with the collection
\* st: the new collection and the new matcher record.
index_documents(st, held, mr, docs) ==
  IndexWrite(st, held, mr, AllChunks(st, mr, docs))

\* What load_existing_index leaves in the matcher once the collection is
\* open: the retrievers and the documents are rebuilt only when the
\* collection holds at least one entry.
LoadedMatcher(st, mr) ==
  IF st # <<>>
  THEN [ vector_store |-> TRUE,
         documents |-> StoreChunks(st),
         bm25_retriever |-> NewBm25(StoreChunks(st)),
         ensemble_retriever |-> TRUE ]
  ELSE [mr EXCEPT !.vector_store = TRUE]

\* Mutant of load_existing_index: a directory that is missing or cannot be
\* opened is reported as loaded.
load_existing_index_TrueOnFailure(st, dir, openOk, mr) ==
  IF ~dir \/ ~openOk
  THEN [ ok |-> TRUE, matcher |-> mr ]
  ELSE [ ok |-> TRUE, matcher |-> LoadedMatcher(st, mr) ]

\* HybridMatcher.load_existing_index.  dir: the persist directory exists;
\* openOk: the Chroma constructor and collection.get did not raise.
load_existing_index(st, dir, openOk, mr) ==
  IF ~dir \/ ~openOk
  THEN [ ok |-> FALSE, matcher |-> mr ]
  ELSE [ ok |-> TRUE, matcher |-> LoadedMatcher(st, mr) ]

\* ------------------------------------------------------------ retrieval
Queries == {"q1", "q2"}

\* page_content of a chunk
Content(ch) == <<ch.txt, ch.part>>

\* The embedding similarity ranking of the contents for a query, best first
\* (an oracle: any fixed order per query).
SimOrder(q) ==
  IF q = "q1"
  THEN << <<"A", 1>>, <<"D", 1>>, <<"E", 1>>, <<"A", 2>>, <<"D", 2>>,
          <<"B", 1>>, <<"E", 2>>, <<"C", 1>>, <<"D", 3>>, <<"E", 3>>,
          <<"G", 1>>, <<"G", 2>>, <<"G", 3>>, <<"G", 4>>, <<"G", 5>>,
          <<"G", 6>> >>
  ELSE << <<"G", 1>>, <<"G", 2>>, <<"G", 3>>, <<"G", 4>>, <<"G", 5>>,
          <<"G", 6>>,
          <<"B", 1>>, <<"E", 1>>, <<"C", 1>>, <<"D", 1>>, <<"E", 2>>,
          <<"A", 2>>, <<"A", 1>>, <<"E", 3>>, <<"D", 2>>, <<"D", 3>> >>

\* The BM25 ranking of the contents for a query, best first (an oracle).
LexOrder(q) ==
  IF q = "q1"
  THEN << <<"A", 1>>, <<"D", 1>>, <<"B", 1>>, <<"D", 2>>, <<"E", 1>>,
          <<"A", 2>>, <<"D", 3>>, <<"E", 2>>, <<"C", 1>>, <<"E", 3>>,
          <<"G", 2>>, <<"G", 1>>, <<"G", 4>>, <<"G", 3>>, <<"G", 6>>,
          <<"G", 5>> >>
  ELSE << <<"G", 2>>, <<"G", 1>>, <<"G", 3>>, <<"G", 5>>, <<"G", 4>>,
          <<"G", 6>>,
          <<"C", 1>>, <<"A", 1>>, <<"D", 1>>, <<"B", 1>>, <<"E", 1>>,
          <<"A", 2>>, <<"E", 2>>, <<"D", 3>>, <<"E", 3>>, <<"D", 2>> >>

\* chunks ordered by the ranking of their contents; equal contents keep
\* their order of insertion
RECURSIVE Ranked(_, _)
Ranked(chunks, order) ==
  IF order = <<>> THEN <<>>
  ELSE SelectIdx(chunks, LAMBDA ch : Content(ch) = Head(order))
         \o Ranked(chunks, Tail(order))

\* vector_store.as_retriever(search_kwargs={"k": k}) on the collection
VecTop(st, q, k) == Take(Ranked(StoreChunks(st), SimOrder(q)), k)

\* bm25_retriever.get_relevant_documents with the retriever's current k
LexTop(bm, q) == Take(Ranked(bm.docs, LexOrder(q)), bm.k)

\* Weighted reciprocal rank fusion of EnsembleRetriever: the score of a
\* content is the sum over both lists of weight / (rank + c), in millionths
\* of a tenth.
RrfScore(c, l1, l2) ==
  LET S[i \in 0..Len(l1)] ==
        IF i = 0 THEN 0
        ELSE S[i-1] + (IF Content(l1[i]) = c
                       THEN (VectorWeight * 1000000) \div (i + RrfC) ELSE 0)
      T[i \in 0..Len(l2)] ==
        IF i = 0 THEN 0
        ELSE T[i-1] + (IF Content(l2[i]) = c
                       THEN ((10 - VectorWeight) * 1000000) \div (i + RrfC)
                       ELSE 0)
  IN S[Len(l1)] + T[Len(l2)]

\* unique_by_key(chain(l1, l2), page_content): first occurrence kept
UniqueByContent(l) ==
  LET F[i \in 0..Len(l)] ==
        IF i = 0 THEN <<>>
        ELSE IF \E j \in 1..(i-1) : Content(l[j]) = Content(l[i])
             THEN F[i-1] ELSE Append(F[i-1], l[i])
  IN F[Len(l)]

\* the keys of the elements of s, in order
KeysOf(s, key(_)) ==
  LET F[i \in 0..Len(s)] ==
        IF i = 0 THEN <<>> ELSE Append(F[i-1], key(s[i]))
  IN F[Len(s)]

\* Mutant of SortByKeys: ascending sort followed by a reversal, which turns
\* the order of elements with equal keys around.
SortByKeysReversed(s, ks) ==
  LET place(i) == 1 + Cardinality({ j \in DOMAIN s :
                                      \/ ks[j] > ks[i]
                                      \/ ks[j] = ks[i] /\ j > i })
      F[p \in 0..Len(s)] ==
        IF p = 0 THEN <<>>
        ELSE Append(F[p-1], s[CHOOSE i \in DOMAIN s : place(i) = p])
  IN F[Len(s)]

\* s ordered by its keys ks, descending, stable: the place of an element is
\* one more than the number of elements that go before it.
SortByKeys(s, ks) ==
  LET place(i) == 1 + Cardinality({ j \in DOMAIN s :
                                      \/ ks[j] > ks[i]
                                      \/ ks[j] = ks[i] /\ j < i })
      F[p \in 0..Len(s)] ==
        IF p = 0 THEN <<>>
        ELSE Append(F[p-1], s[CHOOSE i \in DOMAIN s : place(i) = p])
  IN F[Len(s)]

\* sorted(..., key=key, reverse=True)
SortDesc(s, key(_)) == SortByKeys(s, KeysOf(s, key))

\* weighted_reciprocal_rank of the lists l1 (weight 0.7) and l2 (weight 0.3)
Fuse(l1, l2) ==
  SortDesc(UniqueByContent(l1 \o l2),
           LAMBDA ch : RrfScore(Content(ch), l1, l2))

\* ensemble_retriever.get_relevant_documents: the vector retriever of the
\* ensemble keeps k = 10, its BM25 retriever is the matcher's own object.
EnsembleDocs(st, bm, q) == Fuse(VecTop(st, q, EnsembleK), LexTop(bm, q))

\* -------------------------------------------------------------- scoring
\* round(num/den, 3 decimals) * 1000 for num/den already in thousandths:
\* round half to even on the exact value.
RoundHE(num, den) ==
  LET q == num \div den
      r == num % den
  IN IF 2 * r > den THEN q + 1
     ELSE IF 2 * r < den THEN q
     ELSE IF q % 2 = 0 THEN q ELSE q + 1

\* 0-based position that the scores map keeps for a content: the last one;
\* -1 when the content is not in the list.
PosIn(c, l) ==
  LET hits == { i \in DOMAIN l : Content(l[i]) = c }
  IN IF hits = {} THEN -1
     ELSE (CHOOSE i \in hits : \A j \in hits : j <= i) - 1

Max(a, b) == IF a >= b THEN a ELSE b

Min(a, b) == IF a <= b THEN a ELSE b

\* Numerator of the position score 1 - i/N over the denominator max(N, 1);
\* 0.0 when the content is absent from the list.
PosNum(c, l) == IF PosIn(c, l) < 0 THEN 0 ELSE Max(Len(l), 1) - PosIn(c, l)

\* num/den lies exactly halfway between two integers: round() of the binary
\* float goes to either of them, the model goes to the even one.
IsTie(num, den) == 2 * (num % den) = den

\* Mutant of SearchResultOf: the two weights are swapped.
SearchResultOfSwapped(doc, vector_docs, bm25_docs) ==
  LET n == Max(Len(vector_docs), 1)
      m == Max(Len(bm25_docs), 1)
      vn == PosNum(Content(doc), vector_docs)
      bn == PosNum(Content(doc), bm25_docs)
  IN [ txt |-> doc.txt, part |-> doc.part, cid |-> doc.cid,
       vector_score |-> RoundHE(1000 * vn, n),
       bm25_score |-> RoundHE(1000 * bn, m),
       hybrid_score |->
         RoundHE(100 * ((10 - VectorWeight) * vn * m + VectorWeight * bn * n),
                 n * m),
       tie |-> FALSE ]

\* The SearchResult of one fused document; the three scores in thousandths:
\* round(vector_score, 3), round(bm25_score, 3), round(hybrid_score, 3).
\* tie: one of the three roundings was of a value exactly halfway.
SearchResultOf(doc, vector_docs, bm25_docs) ==
  LET n == Max(Len(vector_docs), 1)
      m == Max(Len(bm25_docs), 1)
      vn == PosNum(Content(doc), vector_docs)
      bn == PosNum(Content(doc), bm25_docs)
      hn == 100 * (VectorWeight * vn * m + (10 - VectorWeight) * bn * n)
  IN [ txt |-> doc.txt, part |-> doc.part, cid |-> doc.cid,
       vector_score |-> RoundHE(1000 * vn, n),
       bm25_score |-> RoundHE(1000 * bn, m),
       hybrid_score |-> RoundHE(hn, n * m),
       tie |-> \/ IsTie(1000 * vn, n) \/ IsTie(1000 * bn, m)
               \/ IsTie(hn, n * m) ]

\* ensemble_docs[:k] and one SearchResult for each of them
HybridResults(vector_docs, bm25_docs, ensemble_docs, k) ==
  LET n == Min(Len(ensemble_docs), k)
      F[i \in 0..n] ==
        IF i = 0 THEN <<>>
        ELSE Append(F[i-1],
                    SearchResultOf(ensemble_docs[i], vector_docs, bm25_docs))
  IN F[n]

\* no retrieval was made
NoPools ==
  [ vector_docs |-> <<>>, bm25_docs |-> <<>>,
    ensemble_vector |-> <<>>, ensemble_bm25 |-> <<>> ]

\* The lists one hybrid search retrieves, bm being the BM25 retriever after
\* "self.bm25_retriever.k = k": vector_docs and bm25_docs, and the two
\* lists the ensemble retriever fuses.
Pools(st, bm, q, k) ==
  [ vector_docs |-> VecTop(st, q, k),
    bm25_docs |-> LexTop(bm, q),
    ensemble_vector |-> VecTop(st, q, EnsembleK),
    ensemble_bm25 |-> LexTop(bm, q) ]

\* the results built from the lists retrieved
Retrieved(p, m1, bm, k) ==
  [ status |-> "ok",
    results |-> HybridResults(p.vector_docs, p.bm25_docs,
                              Fuse(p.ensemble_vector, p.ensemble_bm25), k),
    retrievals |-> 3,
    matcher |-> [m1 EXCEPT !.bm25_retriever = bm],
    pools |-> p ]

\* find_matches once the index is there: the three retrievals with
\* bm25_retriever.k set to k, then the results.
Retrieve(st, m1, bm, q, k) == Retrieved(Pools(st, bm, q, k), m1, bm, k)

\* find_matches after the test of ensemble_retriever; l: the outcome of the
\* load, if one was needed.
SearchLoaded(st, l, q, k) ==
  IF ~l.ok
  THEN [ status |-> "NotIndexed", results |-> <<>>, retrievals |-> 0,
         matcher |-> l.matcher, pools |-> NoPools ]
  ELSE IF ~l.matcher.vector_store
  THEN [ status |-> "AttributeError", results |-> <<>>, retrievals |-> 0,
         matcher |-> l.matcher, pools |-> NoPools ]
  ELSE IF l.matcher.bm25_retriever = None
  THEN [ status |-> "AttributeError", results |-> <<>>, retrievals |-> 1,
         matcher |-> l.matcher, pools |-> NoPools ]
  ELSE Retrieve(st, l.matcher, [l.matcher.bm25_retriever EXCEPT !.k = k],
                q, k)

\* HybridMatcher.find_matches(query, k, "hybrid") run without interruption
\* on matcher record mr: status, results, the number of retriever calls
\* made, and the matcher afterwards.
find_matches(st, dir, openOk, mr, q, k) ==
  SearchLoaded(st,
               IF mr.ensemble_retriever
               THEN [ok |-> TRUE, matcher |-> mr]
               ELSE load_existing_index(st, dir, openOk, mr),
               q, k)

\* ------------------------------------------------------------------ state
VARIABLES
  store,      \* the persisted collection: sequence of [id, ch]
  dirExists,  \* os.path.exists(persist_directory)
  matcher,    \* the HybridMatcher of the long-lived service
  out,        \* outcome of the last completed operation
  search,     \* the hybrid searches in flight on the matcher, by searcher
  mutation    \* the index and delete calls in flight on the collection

vars == <<store, dirExists, matcher, out, search, mutation>>

Searchers == {"s1", "s2"}

\* no search of the searcher is in flight
IdleSearch ==
  [ pc |-> "idle", q |-> "-", k |-> 0, status |-> "-",
    vector_docs |-> <<>>, bm25_docs |-> <<>>, results |-> <<>>,
    vsrc |-> {}, lsrc |-> {}, esrc |-> {}, consistent |-> FALSE ]

\* no index and no delete call is in flight
NoMutation ==
  [ ix |-> "idle", docs |-> <<>>, all_chunks |-> <<>>,
    dl |-> "idle", cid |-> "-", ids |-> {},
    base |-> <<>>, baseMatcher |-> FreshMatcher ]

\* ids a running operation still holds
HeldIds == mutation.ids

Init ==
  /\ store = <<>>
  /\ dirExists = FALSE
  /\ matcher = FreshMatcher
  /\ out = [op |-> "init"]
  /\ search = [s \in Searchers |-> IdleSearch]
  /\ mutation = NoMutation

\* ----------------------------------------------------------- operations
\* HybridMatcher.index_documents(documents) on the long-lived matcher.
IndexDocuments(docs) ==
  LET r == index_documents(store, HeldIds, matcher, docs)
  IN /\ NChunks(docs) + Len(store)
          + (IF matcher.vector_store THEN Len(store) ELSE 0) <= MaxStore
     /\ NChunks(docs) + Len(matcher.documents)
          + (IF matcher.vector_store THEN Len(store) ELSE 0) <= MaxStore
     /\ store' = Canon(r.store, HeldIds)
     /\ dirExists' = TRUE
     /\ matcher' = r.matcher
     /\ out' = [op |-> "index", by |-> "matcher", status |-> "ok",
                documents |-> r.matcher.documents, docs |-> docs,
                hadIndex |-> matcher.vector_store,
                before |-> StoreChunks(store)]
     /\ UNCHANGED <<search, mutation>>

\* POST /process-resume: a new HybridSearchService indexes the one loaded
\* document with its own, new matcher.
ProcessResume(d) ==
  LET r == index_documents(store, HeldIds, FreshMatcher, <<d>>)
  IN /\ store' = Canon(r.store, HeldIds)
     /\ dirExists' = TRUE
     /\ out' = [op |-> "index", by |-> "route", status |-> "ok",
                documents |-> r.matcher.documents, docs |-> <<d>>,
                hadIndex |-> FALSE, before |-> StoreChunks(store)]
     /\ UNCHANGED <<matcher, search, mutation>>

\* HybridMatcher.load_existing_index() on the long-lived matcher.
LoadExistingIndex(openOk) ==
  LET r == load_existing_index(store, dirExists, openOk, matcher)
  IN /\ matcher' = r.matcher
     /\ out' = [op |-> "load", by |-> "matcher",
                status |-> IF r.ok THEN "ok" ELSE "false",
                documents |-> r.matcher.documents]
     /\ UNCHANGED <<store, dirExists, search, mutation>>

\* The matcher of the delete route once the entries are deleted: retrievers
\* and documents rebuilt from what is left, or reset when nothing is left.
AfterDelete(rest) ==
  IF rest # <<>>
  THEN [ vector_store |-> TRUE,
         documents |-> StoreChunks(rest),
         bm25_retriever |-> NewBm25(StoreChunks(rest)),
         ensemble_retriever |-> TRUE ]
  ELSE [ vector_store |-> TRUE,
         documents |-> <<>>,
         bm25_retriever |-> None,
         ensemble_retriever |-> FALSE ]

\* Mutant of DeleteResume: the test "if not ids_to_delete" is missing.
DeleteResume_NoIdsCheck(c, openOk) ==
  LET l == load_existing_index(store, dirExists, openOk, FreshMatcher)
      ids == IdsToDelete(store, c)
      rest == DeleteIds(store, ids)
  IN IF ~l.ok \/ store = <<>>
     THEN /\ out' = [op |-> "delete", by |-> "route", status |-> "404",
                     documents |-> l.matcher.documents,
                     cid |-> c, before |-> StoreChunks(store),
                     matcherBefore |-> matcher]
          /\ UNCHANGED <<store, dirExists, matcher, search, mutation>>
     ELSE /\ store' = Canon(rest, HeldIds)
          /\ out' = [op |-> "delete", by |-> "route", status |-> "ok",
                     documents |-> AfterDelete(rest).documents,
                     cid |-> c, before |-> StoreChunks(store),
                     matcherBefore |-> matcher]
          /\ UNCHANGED <<dirExists, matcher, search, mutation>>

\* DELETE /resume/{candidate_id}: a new service loads the index, deletes the
\* entries of the candidate and rebuilds its retrievers from what is left.
\* out keeps the candidate, the chunks of the collection and the matcher of
\* the long-lived service as they were before the call.
DeleteResume(c, openOk) ==
  LET l == load_existing_index(store, dirExists, openOk, FreshMatcher)
      ids == IdsToDelete(store, c)
      rest == DeleteIds(store, ids)
  IN IF ~l.ok \/ store = <<>> \/ ids = {}
     THEN /\ out' = [op |-> "delete", by |-> "route", status |-> "404",
                     documents |-> l.matcher.documents,
                     cid |-> c, before |-> StoreChunks(store),
                     matcherBefore |-> matcher]
          /\ UNCHANGED <<store, dirExists, matcher, search, mutation>>
     ELSE /\ store' = Canon(rest, HeldIds)
          /\ out' = [op |-> "delete", by |-> "route", status |-> "ok",
                     documents |-> AfterDelete(rest).documents,
                     cid |-> c, before |-> StoreChunks(store),
                     matcherBefore |-> matcher]
          /\ UNCHANGED <<dirExists, matcher, search, mutation>>

\* HybridMatcher.find_matches(query, k) on the long-lived matcher.
FindMatches(q, k, openOk) ==
  LET r == find_matches(store, dirExists, openOk, matcher, q, k)
  IN /\ matcher' = r.matcher
     /\ out' = [op |-> "find", by |-> "matcher", status |-> r.status,
                q |-> q, k |-> k, results |-> r.results,
                retrievals |-> r.retrievals,
                hadIndex |-> matcher.ensemble_retriever,
                dir |-> dirExists, openOk |-> openOk,
                pools |-> r.pools]
     /\ UNCHANGED <<store, dirExists, search, mutation>>

Next ==
  \/ \E b \in Batches : IndexDocuments(b)
  \/ \E d \in InputDocs :
       NChunks(<<d>>) + Len(store) <= MaxStore /\ ProcessResume(d)
  \/ \E o \in BOOLEAN : LoadExistingIndex(o)
  \/ \E c \in Cands, o \in BOOLEAN : DeleteResume(c, o)

Spec == Init /\ [][Next]_vars

\* ------------------------------------------------------------------ C1
\* C1: after every completed index_documents, delete_resume or
\* load_existing_index, the documents list behind the BM25 index of the
\* matcher that ran the operation is the same chunk set as the one the
\* vector store holds.
C1_SameChunkSet ==
  (out.op \in {"index", "delete", "load"} /\ out.status = "ok")
    => Range(out.documents) = Range(StoreChunks(store))

\* ------------------------------------------------------------------ C12
\* the chunks of chunks that do not carry candidate_id c, in order
Others(chunks, c) == SelectIdx(chunks, LAMBDA ch : ch.cid # c)

\* C12: after a successful delete for candidate c, no chunk of c is left in
\* the vector store or in the lexical documents of the service that ran the
\* delete, and both hold exactly the chunks of the other candidates and the
\* chunks without candidate_id that the store held before.
C12_DeleteRemovesOnlyCandidate ==
  (out.op = "delete" /\ out.status = "ok")
    => /\ \A i \in DOMAIN store : store[i].ch.cid # out.cid
       /\ \A i \in DOMAIN out.documents : out.documents[i].cid # out.cid
       /\ StoreChunks(store) = Others(out.before, out.cid)
       /\ out.documents = Others(out.before, out.cid)

\* A delete removed the chunks of one candidate from a store that also held
\* chunks of another candidate and a chunk without candidate_id.
C12_Witness ==
  /\ out.op = "delete" /\ out.status = "ok"
  /\ \E i \in DOMAIN out.before : out.before[i].cid = out.cid
  /\ \E i \in DOMAIN store : store[i].ch.cid = NoCid
  /\ \E i \in DOMAIN store : store[i].ch.cid \notin {NoCid, out.cid}

CarriesOwnCid(ch) == DocCid(ch.txt) # NoCid => ch.cid = DocCid(ch.txt)

C2_ChunksKeepCandidateId ==
  /\ \A i \in DOMAIN store : CarriesOwnCid(store[i].ch)
  /\ \A i \in DOMAIN matcher.documents : CarriesOwnCid(matcher.documents[i])
  /\ matcher.bm25_retriever # None =>
       \A i \in DOMAIN matcher.bm25_retriever.docs :
          CarriesOwnCid(matcher.bm25_retriever.docs[i])
  /\ out.op = "index" =>
       \A i \in DOMAIN out.documents : CarriesOwnCid(out.documents[i])

\* A batch of two documents of two candidates was indexed into an index
\* that already existed, and the chunks of the second are in the store.
C2_Witness ==
  /\ out.op = "index" /\ out.hadIndex
  /\ Len(out.docs) = 2
  /\ out.docs[1].cid # NoCid
  /\ out.docs[2].cid \notin {NoCid, out.docs[1].cid}
  /\ \E i \in DOMAIN store : store[i].ch.txt = out.docs[2].text

\* ------------------------------------------------------------------ C25
\* the chunk set of the collection before the last index call together with
\* the chunks of the documents the call was given
PersistedAndNew ==
  Range(out.before) \cup Range(FillMetadata(out.docs, SplitDocuments(out.docs)))

\* C25: after index_documents on a matcher that held a vector store, the
\* collection and the documents behind the BM25 index of the matcher both
\* hold exactly the chunks the collection held before together with the
\* chunks of the new documents.
C25_MergedWithPersisted ==
  (out.op = "index" /\ out.by = "matcher" /\ out.hadIndex)
    => /\ Range(StoreChunks(store)) = PersistedAndNew
       /\ Range(out.documents) = PersistedAndNew

\* =================================================================== judge
\* The six keys of the report dict of generate_analysis_report.  The list
\* fields are abstracted to their kind: "empty" ([]), "strs" (a list of
\* strings), "mixed" (a list holding an element that is not a string).
FitCategories == {"Excellent", "Good", "Fair", "Poor"}

\* ResumeEvaluatorAgent._get_fallback_report
FallbackReport ==
  [ fit_category |-> "Fair",
    overall_score |-> 50,
    missing_skills |-> "empty",
    explanation |-> "AI analysis failed. Unable to generate detailed report.",
    strengths |-> "empty",
    weaknesses |-> "empty" ]

\* placeholder for "no dict was returned" (an exception left the call)
NoReport ==
  [ fit_category |-> "-", overall_score |-> -1, missing_skills |-> "-",
    explanation |-> "-", strengths |-> "-", weaknesses |-> "-" ]

Absent == [t |-> "absent", v |-> 0]

\* The values the judge may put under "overall_score": JSON integers, JSON
\* floats (v in tenths), a numeric string, a string int() rejects, null, a
\* list, true, NaN.
ScoreValues ==
  { Absent }
    \cup { [t |-> "int", v |-> n] : n \in {-5, 0, 85, 100, 150} }
    \cup { [t |-> "float", v |-> n] : n \in {-5, 855, 1005} }
    \cup { [t |-> x, v |-> 0] : x \in {"text", "null", "list", "nan"} }
    \cup { [t |-> "numstr", v |-> 85], [t |-> "bool", v |-> 1] }

FitValues == {"absent", "Good", "Fair", "Great", "null", "list"}
ListValues == {"absent", "strs", "mixed", "str"}
ExplanationValues == {"absent", "text", "null", "list"}
Wraps == {"plain", "json_fence", "open_fence"}

\* What one call of the judge model may do.  kind: the call raised
\* ("call_failed"), the response has no text ("no_text"), the text is not
\* JSON ("unparsable"), it is a JSON value that is not an object
\* ("not_object"), it is a JSON object ("object") with the given values.
\* wrap: the text is bare, inside ```json ... ```, or after an opening
\* ```json that is never closed.
NonObject(kind, wrap) ==
  [ kind |-> kind, wrap |-> wrap, fit_category |-> "absent",
    overall_score |-> Absent, missing_skills |-> "absent",
    explanation |-> "absent", strengths |-> "absent",
    weaknesses |-> "absent" ]

JudgeResponses ==
  { NonObject(kind, "plain") : kind \in {"call_failed", "no_text"} }
    \cup { NonObject(kind, w) : kind \in {"unparsable", "not_object"},
                                w \in Wraps }
    \cup [ kind : {"object"}, wrap : Wraps, fit_category : FitValues,
           overall_score : ScoreValues, missing_skills : ListValues,
           explanation : ExplanationValues, strengths : {"absent", "strs", "str"},
           weaknesses : {"absent", "mixed", "null"} ]

\* The text handed to json.loads parses to: the slice of an unclosed fence
\* ends one character early (find returns -1), which cuts the closing brace
\* of an object or bracket of a list.
Parsed(resp) ==
  IF resp.kind \in {"object", "not_object"} /\ resp.wrap = "open_fence"
  THEN "unparsable"
  ELSE resp.kind

\* int(result.get("overall_score", 50)): the integer, or "raises".
IntOf(x) ==
  IF x.t = "absent" THEN [ok |-> TRUE, v |-> 50]
  ELSE IF x.t \in {"int", "numstr", "bool"} THEN [ok |-> TRUE, v |-> x.v]
  ELSE IF x.t = "float"
  THEN [ok |-> TRUE,
        v |-> IF x.v >= 0 THEN x.v \div 10 ELSE 0 - ((0 - x.v) \div 10)]
  ELSE [ok |-> FALSE, v |-> 0]


\* result.get(key, []) followed by "if not isinstance(.., list): .. = []"
ListOf(x) == IF x \in {"strs", "mixed", "empty"} THEN x ELSE "empty"

\* Mutant of NormalisedReport: "max(0, min(100, overall_score))" is missing.
NormalisedReportNoClamp(resp) ==
  IF Parsed(resp) = "not_object"
  THEN [raised |-> FALSE, report |-> FallbackReport]
  ELSE IF ~IntOf(resp.overall_score).ok
  THEN [raised |-> FALSE, report |-> FallbackReport]
  ELSE [ raised |-> FALSE,
         report |->
           [ fit_category |->
               IF resp.fit_category \in FitCategories
               THEN resp.fit_category ELSE "Fair",
             overall_score |-> IntOf(resp.overall_score).v,
             missing_skills |-> ListOf(resp.missing_skills),
             explanation |->
               IF resp.explanation = "absent"
               THEN "No explanation provided." ELSE resp.explanation,
             strengths |-> ListOf(resp.strengths),
             weaknesses |-> ListOf(resp.weaknesses) ] ]

\* The try block after json.loads has returned: category, score and lists
\* brought into range; anything that raises there is caught by
\* "except Exception".
NormalisedReport(resp) ==
  IF Parsed(resp) = "not_object"
  THEN [raised |-> FALSE, report |-> FallbackReport]   \* no .get
  ELSE IF ~IntOf(resp.overall_score).ok
  THEN [raised |-> FALSE, report |-> FallbackReport]   \* int() raised
  ELSE [ raised |-> FALSE,
         report |->
           [ fit_category |->
               IF resp.fit_category \in FitCategories
               THEN resp.fit_category ELSE "Fair",
             overall_score |-> Max(0, Min(100, IntOf(resp.overall_score).v)),
             missing_skills |-> ListOf(resp.missing_skills),
             explanation |->
               IF resp.explanation = "absent"
               THEN "No explanation provided." ELSE resp.explanation,
             strengths |-> ListOf(resp.strengths),
             weaknesses |-> ListOf(resp.weaknesses) ] ]

\* Mutant of generate_analysis_report: the JSONDecodeError handler is
\* missing, and the error leaves the call.
generate_analysis_report_NoJsonCatch(resp) ==
  IF Parsed(resp) \in {"call_failed", "no_text"}
  THEN [raised |-> FALSE, report |-> FallbackReport]
  ELSE IF Parsed(resp) = "unparsable"
  THEN [raised |-> TRUE, report |-> NoReport]
  ELSE NormalisedReport(resp)

\* ResumeEvaluatorAgent.generate_analysis_report for one judge response.
generate_analysis_report(resp) ==
  IF Parsed(resp) \in {"call_failed", "no_text"}
  THEN [raised |-> FALSE, report |-> FallbackReport]   \* except Exception
  ELSE IF Parsed(resp) = "unparsable"
  THEN [raised |-> FALSE, report |-> FallbackReport]   \* JSONDecodeError
  ELSE NormalisedReport(resp)

\* out is empty: the client has taken the outcome of the last operation
Idle == out.op \in {"init", "idle"}

\* the outcome of the last operation is taken
Deliver ==
  /\ ~Idle
  /\ out' = [op |-> "idle"]
  /\ UNCHANGED <<store, dirExists, matcher, search, mutation>>

\* One call of generate_analysis_report, the judge answering resp.
Judge(resp) ==
  LET r == generate_analysis_report(resp)
  IN /\ Idle
     /\ out' = [op |-> "judge", resp |-> resp, raised |-> r.raised,
                report |-> r.report]
     /\ UNCHANGED <<store, dirExists, matcher, search, mutation>>

NextJudge ==
  \/ Idle /\ \E resp \in JudgeResponses : Judge(resp)
  \/ Deliver

SpecJudge == Init /\ [][NextJudge]_vars

\* ------------------------------------------------------------------ C6
\* C6: whenever the judge call fails (it raises, or its response has no
\* text) or its response is not JSON, generate_analysis_report raises nothing
\* and returns exactly the fallback report: "Fair", 50, three empty lists
\* and the failure note.
C6_FallbackOnFailure ==
  (out.op = "judge"
     /\ out.resp.kind \in {"call_failed", "no_text", "unparsable"})
    => /\ ~out.raised
       /\ out.report.fit_category = "Fair"
       /\ out.report.overall_score = 50
       /\ out.report.missing_skills = "empty"
       /\ out.report.strengths = "empty"
       /\ out.report.weaknesses = "empty"
       /\ out.report.explanation
            = "AI analysis failed. Unable to generate detailed report."

\* The judge answered with text that is not JSON inside a ```json fence, and
\* the fallback report came back.
C6_Witness ==
  /\ out.op = "judge"
  /\ out.resp.kind = "unparsable" /\ out.resp.wrap = "json_fence"
  /\ ~out.raised /\ out.report = FallbackReport

\* ------------------------------------------------------------------ C19
\* C19: every report generate_analysis_report returns, whatever the judge
\* answered, has fit_category among Excellent, Good, Fair, Poor and an
\* integer overall_score from 0 to 100.
C19_ReportInRange ==
  (out.op = "judge" /\ ~out.raised)
    => /\ out.report.fit_category \in FitCategories
       /\ out.report.overall_score \in 0..100

\* The judge answered with an object holding the category "Great" and the
\* score 150, and the report holds "Fair" and 100.
C19_Witness ==
  /\ out.op = "judge" /\ ~out.raised
  /\ out.resp.kind = "object" /\ out.resp.wrap = "json_fence"
  /\ out.resp.fit_category = "Great"
  /\ out.resp.overall_score = [t |-> "int", v |-> 150]
  /\ out.report.fit_category = "Fair"
  /\ out.report.overall_score = 100

\* ======================================================= candidate search
\* Largest number of chunks the collection of the serving deployment holds.
MaxServeStore == 7

\* The judge answers a request may meet, one per candidate: the call fails;
\* an object with values out of range; an object whose explanation is null.
ServeResponses ==
  { NonObject("call_failed", "plain"),
    [ kind |-> "object", wrap |-> "json_fence", fit_category |-> "Great",
      overall_score |-> [t |-> "int", v |-> 150], missing_skills |-> "strs",
      explanation |-> "text", strengths |-> "str", weaknesses |-> "absent" ],
    [ kind |-> "object", wrap |-> "plain", fit_category |-> "Good",
      overall_score |-> [t |-> "int", v |-> 85], missing_skills |-> "strs",
      explanation |-> "null", strengths |-> "strs", weaknesses |-> "absent" ] }

\* CandidateAnalysisReport(**report_dict): the fields as the data model
\* states them (fit_category one of four, overall_score an integer of
\* 0..100, explanation a string, three lists of strings).
ValidReport(r) ==
  /\ r.fit_category \in FitCategories
  /\ r.overall_score \in 0..100
  /\ r.explanation \notin {"null", "list"}
  /\ r.missing_skills \in {"empty", "strs"}
  /\ r.strengths \in {"empty", "strs"}
  /\ r.weaknesses \in {"empty", "strs"}

\* "if candidate_id:" on chunk_result.metadata.get('candidate_id')
HasCandidateId(r) == r.cid # NoCid

\* keys of candidates_chunks, in order of insertion
CandidateOrder(chunk_results) ==
  LET F[i \in 0..Len(chunk_results)] ==
        IF i = 0 THEN <<>>
        ELSE IF HasCandidateId(chunk_results[i])
                  /\ chunk_results[i].cid \notin Range(F[i-1])
             THEN Append(F[i-1], chunk_results[i].cid)
             ELSE F[i-1]
  IN F[Len(chunk_results)]

\* candidates_chunks[candidate_id]
ChunksOf(chunk_results, c) ==
  SelectIdx(chunk_results, LAMBDA r : HasCandidateId(r) /\ r.cid = c)

SumOf(rs, get(_)) ==
  LET F[i \in 0..Len(rs)] == IF i = 0 THEN 0 ELSE F[i-1] + get(rs[i])
  IN F[Len(rs)]

\* the three averages of the scores the chunks report and their number
Averaged(c, chunks, report, sv, sb, sh, n) ==
  [ candidate_id |-> c,
    chunks |-> [i \in DOMAIN chunks |->
                  [ txt |-> chunks[i].txt, part |-> chunks[i].part,
                    cid |-> chunks[i].cid ]],
    vector_score |-> RoundHE(sv, n),
    bm25_score |-> RoundHE(sb, n),
    hybrid_score |-> RoundHE(sh, n),
    tie |-> \/ \E i \in DOMAIN chunks : chunks[i].tie
            \/ IsTie(sv, n) \/ IsTie(sb, n) \/ IsTie(sh, n),
    report |-> report ]

\* Mutant of CandidateResult: the sums are divided by one more than the
\* number of chunks.
CandidateResultWrongDivisor(c, chunks, report) ==
  Averaged(c, chunks, report,
           SumOf(chunks, LAMBDA r : r.vector_score),
           SumOf(chunks, LAMBDA r : r.bm25_score),
           SumOf(chunks, LAMBDA r : r.hybrid_score),
           Len(chunks) + 1)

\* The CandidateMatchResult of one candidate: the three averages of the
\* scores its chunks report, each rounded to 3 decimals (thousandths).
CandidateResult(c, chunks, report) ==
  Averaged(c, chunks, report,
           SumOf(chunks, LAMBDA r : r.vector_score),
           SumOf(chunks, LAMBDA r : r.bm25_score),
           SumOf(chunks, LAMBDA r : r.hybrid_score),
           Len(chunks))

\* Mutant of TopCandidates: the list is sorted and not cut.
TopCandidatesUncut(cands, k) ==
  SortDesc(cands, LAMBDA c : c.hybrid_score)

\* candidate_results.sort(key=hybrid_score, reverse=True); return [:k]
TopCandidates(cands, k) ==
  Take(SortDesc(cands, LAMBDA c : c.hybrid_score), k)

\* one generate_analysis_report per candidate, in order
ReportsOf(order, judge) ==
  LET F[i \in 0..Len(order)] ==
        IF i = 0 THEN <<>>
        ELSE Append(F[i-1], generate_analysis_report(judge[order[i]]))
  IN F[Len(order)]

\* candidate_results before the sort
CandidateResults(chunk_results, order, reports) ==
  LET F[i \in 0..Len(order)] ==
        IF i = 0 THEN <<>>
        ELSE Append(F[i-1],
                    CandidateResult(order[i],
                                    ChunksOf(chunk_results, order[i]),
                                    reports[i].report))
  IN F[Len(order)]

\* the loop over the candidates, the sort and the cut
Evaluate(chunk_results, order, reports, k) ==
  IF \E i \in DOMAIN order : reports[i].raised
  THEN [ status |-> "JudgeError", results |-> <<>>,
         chunks |-> chunk_results ]
  ELSE IF \E i \in DOMAIN order : ~ValidReport(reports[i].report)
  THEN [ status |-> "ValidationError", results |-> <<>>,
         chunks |-> chunk_results ]
  ELSE [ status |-> "ok",
         results |->
           TopCandidates(CandidateResults(chunk_results, order, reports), k),
         chunks |-> chunk_results ]

\* HybridSearchService.find_matches after the chunk search returned cr:
\* grouping, one judge call and one report per candidate, sort, cut.
\* judge[c]: what the judge does on the call made for candidate c.
find_candidates(cr, order, k, judge) ==
  IF cr.status # "ok"
  THEN [ status |-> cr.status, results |-> <<>>, chunks |-> <<>> ]
  ELSE Evaluate(cr.results, order, ReportsOf(order, judge), k)

\* what the caller of a candidate search sees
CandidatesOutcome(by, q, k, judge, r) ==
  [ op |-> "candidates", by |-> by, q |-> q, k |-> k, judge |-> judge,
    status |-> r.status, results |-> r.results, chunks |-> r.chunks ]

\* the judge calls of one request, the chunk search having returned cr
JudgeAndReturn(by, q, k, cr, order) ==
  \E judge \in [Cands -> ServeResponses] :
    out' = CandidatesOutcome(by, q, k, judge,
                             find_candidates(cr, order, k, judge))

\* POST /process-resume in the serving deployment.
UploadResume(d) ==
  /\ NChunks(<<d>>) + Len(store) <= MaxServeStore
  /\ ProcessResume(d)

\* the service method, the chunk search having returned cr
FindCandidatesWith(q, k, cr) ==
  /\ matcher' = cr.matcher
  /\ JudgeAndReturn("service", q, k, cr, CandidateOrder(cr.results))
  /\ UNCHANGED <<store, dirExists, search, mutation>>

\* HybridSearchService.find_matches(job_description, k) on the long-lived
\* service.
FindCandidates(q, k, openOk) ==
  FindCandidatesWith(
    q, k, find_matches(store, dirExists, openOk, matcher, q, k * 3))

\* the module function after its load_existing_index returned l
FindCandidatesLoaded(q, k, l, cr) ==
  /\ IF l.ok
     THEN JudgeAndReturn("route", q, k, cr, CandidateOrder(cr.results))
     ELSE out' = CandidatesOutcome(
                   "route", q, k, [c \in Cands |-> NonObject("call_failed", "plain")],
                   [status |-> "ok", results |-> <<>>, chunks |-> <<>>])
  /\ UNCHANGED <<store, dirExists, matcher, search, mutation>>

\* The module function find_matches behind POST /find-matches: a new
\* service loads the index and returns [] when there is none to load.
FindCandidatesFresh(q, k, openOk, l) ==
  FindCandidatesLoaded(
    q, k, l, find_matches(store, dirExists, openOk, l.matcher, q, k * 3))

FindCandidatesRoute(q, k, openOk) ==
  FindCandidatesFresh(
    q, k, openOk,
    load_existing_index(store, dirExists, openOk, FreshMatcher))

NextServe ==
  \/ Idle /\ \E d \in ServeDocs : UploadResume(d)
  \/ Idle /\ \E o \in BOOLEAN : LoadExistingIndex(o)
  \/ Idle /\ \E q \in Queries, k \in 1..MaxK, o \in BOOLEAN :
               FindMatches(q, k, o)
  \/ Idle /\ \E q \in Queries, k \in 1..MaxK, o \in BOOLEAN :
               FindCandidates(q, k, o)
  \/ Idle /\ \E q \in Queries, k \in 1..MaxK, o \in BOOLEAN :
               FindCandidatesRoute(q, k, o)
  \/ Deliver

SpecServe == Init /\ [][NextServe]_vars

\* ------------------------------------------------------------------ C3
\* C3: a completed HybridSearchService.find_matches returns at most k
\* results, every one of them carries a candidate_id, and every chunk it was
\* built from carries that candidate_id.
C3_AtMostKWithCandidateId ==
  (out.op = "candidates" /\ out.status = "ok")
    => /\ Len(out.results) <= out.k
       /\ \A i \in DOMAIN out.results :
            /\ out.results[i].candidate_id # NoCid
            /\ \A j \in DOMAIN out.results[i].chunks :
                 out.results[i].chunks[j].cid = out.results[i].candidate_id

\* A search for one candidate whose chunk search returned chunks of two
\* candidates and a chunk without candidate_id.
C3_Witness ==
  /\ out.op = "candidates" /\ out.status = "ok" /\ out.k = 1
  /\ Len(out.results) = 1
  /\ \E i \in DOMAIN out.chunks : out.chunks[i].cid = NoCid
  /\ \A c \in Cands : \E i \in DOMAIN out.chunks : out.chunks[i].cid = c

\* ------------------------------------------------------------------ C18
\* the place of candidate c among the keys of candidates_chunks
RankOf(c, order) == CHOOSE i \in DOMAIN order : order[i] = c

\* C18: the list findCandidates returns is in non-increasing order of the
\* candidates' hybrid_score, and candidates with equal hybrid_score stand in
\* the order in which their first chunk stands in the retrieved chunk list.
C18_SortedAndStable ==
  (out.op = "candidates" /\ out.status = "ok")
    => \A i, j \in DOMAIN out.results :
         i < j =>
           /\ out.results[i].hybrid_score >= out.results[j].hybrid_score
           /\ out.results[i].hybrid_score = out.results[j].hybrid_score
                => RankOf(out.results[i].candidate_id,
                          CandidateOrder(out.chunks))
                     < RankOf(out.results[j].candidate_id,
                              CandidateOrder(out.chunks))

\* Two candidates with the same hybrid_score were returned.
C18_Witness ==
  /\ out.op = "candidates" /\ out.status = "ok"
  /\ Len(out.results) = 2
  /\ out.results[1].hybrid_score = out.results[2].hybrid_score

\* Two candidates were returned, and the one whose chunk stands first in the
\* retrieved list is the second of the list returned.
C18_WitnessReordered ==
  /\ out.op = "candidates" /\ out.status = "ok"
  /\ Len(out.results) = 2
  /\ out.results[1].hybrid_score > out.results[2].hybrid_score
  /\ CandidateOrder(out.chunks)[1] = out.results[2].candidate_id

\* ------------------------------------------------------------------ C4
\* alpha * vector_score + (1 - alpha) * bm25_score of the reported scores,
\* in ten-thousandths
Weighted(r) ==
  VectorWeight * r.vector_score + (10 - VectorWeight) * r.bm25_score

\* the chunk results and the candidate results the last search returned
ReportedChunks ==
  IF out.op = "find" /\ out.status = "ok" THEN out.results
  ELSE IF out.op = "candidates" /\ out.status = "ok" THEN out.chunks
  ELSE <<>>

ReportedCandidates ==
  IF out.op = "candidates" /\ out.status = "ok" THEN out.results ELSE <<>>

\* h is x rounded to 3 decimals (where x lies exactly halfway between two
\* thousandths, either of them)
IsRounded(h, x) == 10 * h - x \in -5..5

\* C4 as stated: the reported hybrid_score of every SearchResult and of
\* every CandidateMatchResult equals round(alpha * vector_score
\* + (1 - alpha) * bm25_score, 3) of the vector_score and bm25_score the same
\* result reports.  Results one of whose scores was rounded from a value
\* exactly halfway are left out: there the binary float decides the score.
C4_HybridIsRoundedFormula ==
  /\ \A i \in DOMAIN ReportedChunks :
       ~ReportedChunks[i].tie =>
         IsRounded(ReportedChunks[i].hybrid_score,
                   Weighted(ReportedChunks[i]))
  /\ \A i \in DOMAIN ReportedCandidates :
       ~ReportedCandidates[i].tie =>
         IsRounded(ReportedCandidates[i].hybrid_score,
                   Weighted(ReportedCandidates[i]))

\* C4 as amended: the reported hybrid_score differs from round(alpha *
\* vector_score + (1 - alpha) * bm25_score, 3) of the reported scores by at
\* most one unit of the third decimal for a SearchResult and by at most two
\* units for a CandidateMatchResult.
C4_HybridWithinRounding ==
  /\ \A i \in DOMAIN ReportedChunks :
       10 * ReportedChunks[i].hybrid_score - Weighted(ReportedChunks[i])
         \in -15..15
  /\ \A i \in DOMAIN ReportedCandidates :
       10 * ReportedCandidates[i].hybrid_score
           - Weighted(ReportedCandidates[i]) \in -25..25

\* A chunk result whose two component scores both round away from their
\* exact values: 4/7 reported as 0.571, 3/7 as 0.429.
C4_Witness ==
  \E i \in DOMAIN ReportedChunks :
    /\ ReportedChunks[i].vector_score = 571
    /\ ReportedChunks[i].bm25_score = 429
    /\ ReportedChunks[i].hybrid_score = 529

\* ------------------------------------------------------------------ C5
\* C5: whatever the judge answers for each candidate, a candidate search
\* whose chunk search succeeded completes without raising and every result
\* carries a report.
C5_JudgeNeverFailsSearch ==
  (out.op = "candidates" /\ out.status \notin {"NotIndexed", "AttributeError"})
    => /\ out.status = "ok"
       /\ \A i \in DOMAIN out.results : out.results[i].report # NoReport

C23_FixedPools ==
  (out.op = "find" /\ out.status = "ok")
    => /\ Len(out.pools.vector_docs) = Min(EnsembleK, Len(store))
       /\ Len(out.pools.ensemble_vector) = Min(EnsembleK, Len(store))
       /\ Len(out.pools.bm25_docs)
            = Min(EnsembleK, Len(matcher.bm25_retriever.docs))
       /\ Len(out.pools.ensemble_bm25)
            = Min(EnsembleK, Len(matcher.bm25_retriever.docs))

\* ------------------------------------------------------------------ C24
\* 1-based place of the first chunk of list l with content c; 0: none
FirstPos(c, l) ==
  LET hits == { i \in DOMAIN l : Content(l[i]) = c }
  IN IF hits = {} THEN 0 ELSE CHOOSE i \in hits : \A j \in hits : i <= j

\* 1 - i/N of the first chunk with content c in list l, to 3 decimals, in
\* thousandths; 0.0 when the list holds no such chunk
PositionScore(c, l) ==
  IF FirstPos(c, l) = 0 THEN 0
  ELSE RoundHE(1000 * (Len(l) - (FirstPos(c, l) - 1)), Len(l))

\* C24: every result of a hybrid search reports, as vector_score and as
\* bm25_score, the position score 1 - i/N (to 3 decimals) of the place i its
\* chunk has in the retrieved list of length N, and 0.0 for a list that does
\* not hold its chunk.  The chunk of a fused result is the first chunk with
\* its content of each list (the fusion keeps first occurrences).
C24_PositionScores ==
  (out.op = "find" /\ out.status = "ok")
    => \A i \in DOMAIN out.results :
         /\ out.results[i].vector_score
              = PositionScore(Content(out.results[i]), out.pools.vector_docs)
         /\ out.results[i].bm25_score
              = PositionScore(Content(out.results[i]), out.pools.bm25_docs)

\* ============================================== searches between awaits
\* HybridMatcher.find_matches gives the event loop away three times: at the
\* vector retrieval, at the BM25 retrieval and at the ensemble retrieval.
\* Each retrieval reads the collection, or the BM25 retriever and its k,
\* when it runs; whatever else is scheduled in between has run by then.
\* vsrc, lsrc, esrc record the chunk set each retrieval read from;
\* consistent records whether the lexical documents and the collection held
\* the same chunk set when the search started.

\* Largest number of chunks in the collection while searches overlap.
MaxConcStore == 4

\* find_matches up to the first await: the test of ensemble_retriever and
\* the load it may need.
Begin(s, q, k, openOk) ==
  LET l == IF matcher.ensemble_retriever
           THEN [ok |-> TRUE, matcher |-> matcher]
           ELSE load_existing_index(store, dirExists, openOk, matcher)
  IN /\ search[s].pc = "idle"
     /\ matcher' = l.matcher
     /\ search' =
          [search EXCEPT ![s] =
             [ IdleSearch EXCEPT
                 !.pc = IF l.ok THEN "vec" ELSE "done",
                 !.q = q, !.k = k,
                 !.status = IF l.ok THEN "-" ELSE "NotIndexed",
                 !.consistent =
                   Range(l.matcher.documents) = Range(StoreChunks(store)) ]]
     /\ UNCHANGED <<store, dirExists, out, mutation>>

\* the vector retrieval runs
VecRead(s) ==
  /\ search[s].pc = "vec"
  /\ search' = [search EXCEPT
                  ![s].pc = "setk",
                  ![s].vector_docs = VecTop(store, search[s].q, search[s].k),
                  ![s].vsrc = Range(StoreChunks(store))]
  /\ UNCHANGED <<store, dirExists, matcher, out, mutation>>

\* the search is resumed: "self.bm25_retriever.k = k", and the BM25
\* retrieval is started
SetK(s) ==
  /\ search[s].pc = "setk"
  /\ IF matcher.bm25_retriever = None
     THEN /\ search' = [search EXCEPT ![s].pc = "done",
                                      ![s].status = "AttributeError"]
          /\ UNCHANGED matcher
     ELSE /\ matcher' = [matcher EXCEPT !.bm25_retriever.k = search[s].k]
          /\ search' = [search EXCEPT ![s].pc = "lex"]
  /\ UNCHANGED <<store, dirExists, out, mutation>>

\* the BM25 retrieval runs: get_top_n(.., n=self.k) with the k the
\* retriever has by then
LexRead(s) ==
  /\ search[s].pc = "lex"
  /\ search' = [search EXCEPT
                  ![s].pc = "ens",
                  ![s].bm25_docs = LexTop(matcher.bm25_retriever, search[s].q),
                  ![s].lsrc = Range(matcher.bm25_retriever.docs)]
  /\ UNCHANGED <<store, dirExists, matcher, out, mutation>>

\* the ensemble retrieval runs, the search is resumed and builds its results
EnsRead(s) ==
  /\ search[s].pc = "ens"
  /\ search' = [search EXCEPT
                  ![s].pc = "done",
                  ![s].status = "ok",
                  ![s].esrc = Range(StoreChunks(store)),
                  ![s].results =
                    HybridResults(
                      search[s].vector_docs, search[s].bm25_docs,
                      EnsembleDocs(store, matcher.bm25_retriever, search[s].q),
                      search[s].k)]
  /\ UNCHANGED <<store, dirExists, matcher, out, mutation>>

\* the caller has the results (or the error)
Return(s) ==
  /\ search[s].pc = "done"
  /\ search' = [search EXCEPT ![s] = IdleSearch]
  /\ UNCHANGED <<store, dirExists, matcher, out, mutation>>

Quiet == \A s \in Searchers : search[s].pc = "idle"

\* Two searchers on one matcher; resumes are uploaded only between searches.
NextConc ==
  \/ \E d \in InputDocs :
       /\ Quiet
       /\ NChunks(<<d>>) + Len(store) <= MaxConcStore
       /\ \A i \in DOMAIN store : store[i].ch.txt # d.text
       /\ ProcessResume(d)
  \/ \E s \in Searchers, k \in 1..MaxK, o \in BOOLEAN : Begin(s, "q1", k, o)
  \/ \E s \in Searchers : VecRead(s)
  \/ \E s \in Searchers : SetK(s)
  \/ \E s \in Searchers : LexRead(s)
  \/ \E s \in Searchers : EnsRead(s)
  \/ \E s \in Searchers : Return(s)

SpecConc == Init /\ [][NextConc]_vars

\* One searcher, and uploads and deletes at any time.
NextOverlap ==
  \/ \E d \in InputDocs :
       /\ Idle
       /\ NChunks(<<d>>) + Len(store) <= MaxConcStore
       /\ \A i \in DOMAIN store : store[i].ch.txt # d.text
       /\ ProcessResume(d)
  \/ Idle /\ \E c \in Cands : DeleteResume(c, TRUE)
  \/ Deliver
  \/ Idle /\ \E k \in 1..MaxK, o \in BOOLEAN : Begin("s1", "q1", k, o)
  \/ Idle /\ VecRead("s1")
  \/ Idle /\ SetK("s1")
  \/ Idle /\ LexRead("s1")
  \/ Idle /\ EnsRead("s1")
  \/ Idle /\ Return("s1")

SpecOverlap == Init /\ [][NextOverlap]_vars

\* ------------------------------------------------------------------ C8
\* C8: a hybrid search that started on an index whose lexical documents and
\* vector store held the same chunk set reads its vector pool, its lexical
\* pool and its fused list from one and the same chunk set, whatever index
\* or delete operation runs while it is in flight.
C8_OneChunkSetPerSearch ==
  \A s \in Searchers :
    (search[s].pc = "done" /\ search[s].status = "ok" /\ search[s].consistent)
      => /\ search[s].vsrc = search[s].lsrc
         /\ search[s].esrc = search[s].lsrc

\* ------------------------------------------------------------------ C10
\* C10: a hybrid search that completes while only other searches run on the
\* matcher returns exactly the results it returns when it runs alone.
C10_SearchesIndependent ==
  \A s \in Searchers :
    (search[s].pc = "done" /\ search[s].status = "ok")
      => search[s].results
           = find_matches(store, dirExists, TRUE, matcher,
                          search[s].q, search[s].k).results

\* ================================== index and delete between storage calls
\* Two processes on one persist directory: one holds a HybridMatcher and
\* calls index_documents, the other serves DELETE /resume/{candidate_id}.
\* Nothing in the code keeps either from running between two storage calls
\* of the other: index_documents reads the collection (collection.get) and
\* later writes it (Chroma.from_documents); delete_resume reads the ids
\* (collection.get) and later deletes them (collection.delete).

\* the collection and the matcher as they were when the first of the calls
\* in flight started
Started ==
  IF mutation.ix = "idle" /\ mutation.dl = "idle"
  THEN [mutation EXCEPT !.base = store, !.baseMatcher = matcher]
  ELSE mutation

\* index_documents up to and with collection.get()
IxBegin(docs) ==
  /\ mutation.ix = "idle"
  /\ NChunks(docs) + Len(store)
       + (IF matcher.vector_store THEN Len(store) ELSE 0) <= MaxStore
  /\ NChunks(docs) + Len(matcher.documents)
       + (IF matcher.vector_store THEN Len(store) ELSE 0) <= MaxStore
  /\ mutation' = [Started EXCEPT
                    !.ix = "read", !.docs = docs,
                    !.all_chunks = AllChunks(store, matcher, docs)]
  /\ UNCHANGED <<store, dirExists, matcher, out, search>>

\* index_documents from Chroma.from_documents on
IxWrite ==
  /\ mutation.ix = "read"
  /\ store' = Canon(IndexWrite(store, HeldIds, matcher,
                               mutation.all_chunks).store, HeldIds)
  /\ matcher' = IndexWrite(store, HeldIds, matcher,
                           mutation.all_chunks).matcher
  /\ dirExists' = TRUE
  /\ mutation' = [mutation EXCEPT !.ix = "done"]
  /\ UNCHANGED <<out, search>>

\* delete_resume up to and with the search for the ids of the candidate;
\* without any, the route answers 404 and nothing is in flight
DlBegin(c) ==
  /\ mutation.dl = "idle"
  /\ load_existing_index(store, dirExists, TRUE, FreshMatcher).ok
  /\ IdsToDelete(store, c) # {}
  /\ mutation' = [Started EXCEPT
                    !.dl = "read", !.cid = c, !.ids = IdsToDelete(store, c)]
  /\ UNCHANGED <<store, dirExists, matcher, out, search>>

\* delete_resume from collection.delete(ids=ids_to_delete) on
DlDelete ==
  /\ mutation.dl = "read"
  /\ store' = Canon(DeleteIds(store, mutation.ids), {})
  /\ mutation' = [mutation EXCEPT !.dl = "done", !.ids = {}]
  /\ UNCHANGED <<dirExists, matcher, out, search>>

\* both callers have their answers
Settle ==
  /\ mutation.ix \in {"idle", "done"} /\ mutation.dl \in {"idle", "done"}
  /\ mutation # NoMutation
  /\ mutation' = NoMutation
  /\ UNCHANGED <<store, dirExists, matcher, out, search>>

NextRace ==
  \/ \E d \in InputDocs :
       /\ Idle /\ mutation = NoMutation
       /\ NChunks(<<d>>) + Len(store) <= MaxStore
       /\ ProcessResume(d)
  \/ Idle /\ mutation = NoMutation /\ LoadExistingIndex(TRUE)
  \/ Deliver
  \/ Idle /\ \E b \in Batches : IxBegin(b)
  \/ IxWrite
  \/ Idle /\ \E c \in Cands : DlBegin(c)
  \/ DlDelete
  \/ Settle

SpecRace == Init /\ [][NextRace]_vars

\* the collection after the index call and then the delete, each run alone
SerialIndexDelete ==
  DeleteIds(
    index_documents(mutation.base, {}, mutation.baseMatcher,
                    mutation.docs).store,
    IdsToDelete(index_documents(mutation.base, {}, mutation.baseMatcher,
                                mutation.docs).store, mutation.cid))

\* the collection after the delete and then the index call, each run alone
SerialDeleteIndex ==
  index_documents(
    DeleteIds(mutation.base, IdsToDelete(mutation.base, mutation.cid)),
    {}, mutation.baseMatcher, mutation.docs).store

\* ------------------------------------------------------------------ C9
\* C9: when an index call and a delete call that overlapped have both
\* completed, the collection holds the chunk set that one of the two serial
\* orders of the calls leaves.
C9_SerialisableStore ==
  (mutation.ix = "done" /\ mutation.dl = "done")
    => \/ Range(StoreChunks(store)) = Range(StoreChunks(SerialIndexDelete))
       \/ Range(StoreChunks(store)) = Range(StoreChunks(SerialDeleteIndex))

\* ======================================================== search strategies
\* The values of search_type a caller may pass: the three strategies, and
\* strings that are none of them (the comparison is by equality, so another
\* spelling of a strategy is none of them).
SearchTypes == {"hybrid", "vector", "keyword", "invalid", "", "HYBRID"}

\* the plain chunks of the branches "vector" and "keyword", tagged with the
\* strategy (the scores the evaluator agent gives are left out)
Tagged(docs, search_type) ==
  [ i \in DOMAIN docs |->
      [ txt |-> docs[i].txt, part |-> docs[i].part, cid |-> docs[i].cid,
        search_type |-> search_type ] ]

\* the branch search_type == "vector"
VectorSearch(st, mr, q, k) ==
  IF ~mr.vector_store
  THEN [ status |-> "VectorStoreNotInitialized", results |-> <<>>,
         retrievals |-> 0, matcher |-> mr ]
  ELSE [ status |-> "ok", results |-> Tagged(VecTop(st, q, k), "vector"),
         retrievals |-> 1, matcher |-> mr ]

\* the branch search_type == "keyword"
KeywordSearch(mr, q, k) ==
  IF mr.bm25_retriever = None
  THEN [ status |-> "BM25NotInitialized", results |-> <<>>,
         retrievals |-> 0, matcher |-> mr ]
  ELSE [ status |-> "ok",
         results |-> Tagged(LexTop([mr.bm25_retriever EXCEPT !.k = k], q),
                            "keyword"),
         retrievals |-> 1,
         matcher |-> [mr EXCEPT !.bm25_retriever.k = k] ]

\* Mutant of find_matches_by_type: a search_type that is neither "vector"
\* nor "keyword" is served as "hybrid".
find_matches_DefaultHybrid(st, dir, openOk, mr, q, k, search_type) ==
  IF search_type = "vector" THEN VectorSearch(st, mr, q, k)
  ELSE IF search_type = "keyword" THEN KeywordSearch(mr, q, k)
  ELSE find_matches(st, dir, openOk, mr, q, k)

\* HybridMatcher.find_matches(query, k, search_type): the if / elif chain
\* over search_type and its else branch, ValueError("Invalid search_type").
find_matches_by_type(st, dir, openOk, mr, q, k, search_type) ==
  IF search_type = "hybrid" THEN find_matches(st, dir, openOk, mr, q, k)
  ELSE IF search_type = "vector" THEN VectorSearch(st, mr, q, k)
  ELSE IF search_type = "keyword" THEN KeywordSearch(mr, q, k)
  ELSE [ status |-> "InvalidSearchType", results |-> <<>>,
         retrievals |-> 0, matcher |-> mr ]

\* the call, its outcome being r
SearchDone(q, k, search_type, r) ==
  /\ matcher' = r.matcher
  /\ out' = [ op |-> "search", q |-> q, k |-> k,
              search_type |-> search_type, status |-> r.status,
              results |-> r.results, retrievals |-> r.retrievals,
              hadIndex |-> matcher.ensemble_retriever,
              hadStore |-> matcher.vector_store,
              loaded |-> r.matcher # matcher /\ ~matcher.vector_store ]
  /\ UNCHANGED <<store, dirExists, search, mutation>>

\* HybridMatcher.find_matches(query, k, search_type) on the long-lived
\* matcher.
FindMatchesByType(q, k, search_type, openOk) ==
  SearchDone(q, k, search_type,
             find_matches_by_type(store, dirExists, openOk, matcher,
                                  q, k, search_type))

\* Largest number of chunks in the collection while strategies are tried.
MaxTypeStore == 3

NextSearchType ==
  \/ \E d \in InputDocs :
       /\ Idle
       /\ NChunks(<<d>>) + Len(store) <= MaxTypeStore
       /\ ProcessResume(d)
  \/ Idle /\ \E o \in BOOLEAN : LoadExistingIndex(o)
  \/ Idle /\ \E c \in Cands : DeleteResume(c, TRUE)
  \/ Idle /\ \E k \in 1..MaxK, t \in SearchTypes, o \in BOOLEAN :
               FindMatchesByType("q1", k, t, o)
  \/ Deliver

SpecSearchType == Init /\ [][NextSearchType]_vars

\* ------------------------------------------------------------------ C16
\* C16: HybridMatcher.find_matches called with a search_type other than
\* hybrid, vector and keyword fails with ValueError "Invalid search_type",
\* whatever the matcher holds; it calls no retriever, loads no index and
\* returns no result.
C16_InvalidSearchType ==
  (out.op = "search"
     /\ out.search_type \notin {"hybrid", "vector", "keyword"})
    => /\ out.status = "InvalidSearchType"
       /\ out.retrievals = 0
       /\ out.results = <<>>
       /\ ~out.loaded

\* The call with "invalid" failed so on a matcher that held an index over a
\* collection with chunks.
C16_Witness ==
  /\ out.op = "search" /\ out.search_type = "invalid"
  /\ out.hadIndex /\ store # <<>>
  /\ out.status = "InvalidSearchType"

\* The call with "invalid" failed so on a matcher without an index, with
\* chunks in the collection it could have loaded.
C16_WitnessNotLoaded ==
  /\ out.op = "search" /\ out.search_type = "invalid"
  /\ ~out.hadIndex /\ ~out.hadStore /\ store # <<>>
  /\ out.status = "InvalidSearchType"

\* ================================================== loading and sanitizing
\* A text is a sequence of atoms: words, single characters, spans that hold
\* personal data, and runs of white space ("  ": two blanks, "nl": a line
\* break).  The atoms of more than one character are made of word
\* characters and of ".", "@", "+", ":", "/".
Blank == {" ", "  ", "nl"}

\* the single characters texts hold that are neither \w nor \s
Symbols == {"|", "*", "<", ">"}

\* the punctuation of the character class of _post_process_text:
\* .,!?;:()\-"\'/&%$#@*+=<>\[\]{}
Punctuation ==
  { ".", ",", "!", "?", ";", ":", "(", ")", "-", "\"", "'", "/", "&", "%",
    "$", "#", "@", "*", "+", "=", "<", ">", "[", "]", "{", "}" }

\* The atom is made of characters the class [\w\s\u0400-\u04FF...] holds.
Allowed(a) == a \notin Symbols \/ a \in Punctuation

\* new_value of the replace operator of each entity type, between "<" and
\* ">"
Operators ==
  [ EMAIL_ADDRESS |-> "EMAIL_REDACTED",
    PHONE_NUMBER |-> "PHONE_REDACTED",
    URL |-> "LINK_REDACTED" ]

\* the redaction token of an entity type, as atoms
Token(entity_type) == <<"<", Operators[entity_type], ">">>

\* What the recognisers of the analyzer match: an e-mail address, a URL, a
\* phone number written in one piece, and a phone number written in two
\* groups of digits with blanks between them.  The phone matcher takes
\* blanks between the groups of a number and no line break and no "|".
Shapes ==
  { [atoms |-> <<"john@example.com">>, entity_type |-> "EMAIL_ADDRESS"],
    [atoms |-> <<"https://example.com">>, entity_type |-> "URL"],
    [atoms |-> <<"+380501234567">>, entity_type |-> "PHONE_NUMBER"],
    [atoms |-> <<"+38050", " ", "1234567">>, entity_type |-> "PHONE_NUMBER"],
    [atoms |-> <<"+38050", "  ", "1234567">>,
     entity_type |-> "PHONE_NUMBER"] }

\* analyzer.analyze(text): the spans found, with their entity types
analyze(text) ==
  UNION { { [start |-> i, end |-> i + Len(s.atoms) - 1,
             entity_type |-> s.entity_type] :
            s \in { t \in Shapes :
                      /\ i + Len(t.atoms) - 1 <= Len(text)
                      /\ SubSeq(text, i, i + Len(t.atoms) - 1) = t.atoms } } :
          i \in DOMAIN text }

\* anonymizer.anonymize(text, analyzer_results, operators): every span is
\* replaced by the token of its entity type.
anonymize(text, results) ==
  LET F[i \in 0..Len(text)] ==
        IF i = 0 THEN <<>>
        ELSE IF \E r \in results : r.end = i
        THEN LET span == CHOOSE r \in results : r.end = i
             IN F[span.start - 1] \o Token(span.entity_type)
        ELSE Append(F[i-1], text[i])
  IN F[Len(text)]

\* re.sub(r'\s+', ' ', text)
collapse_whitespace(text) ==
  LET F[i \in 0..Len(text)] ==
        IF i = 0 THEN <<>>
        ELSE IF text[i] \in Blank
             THEN IF F[i-1] # <<>> /\ F[i-1][Len(F[i-1])] = " "
                  THEN F[i-1] ELSE Append(F[i-1], " ")
             ELSE Append(F[i-1], text[i])
  IN F[Len(text)]

\* re.sub(r'[^\w\s\u0400-\u04FF.,!?;:()\-"\'/&%$#@*+=<>\[\]{}]', ' ', text)
remove_special(text) ==
  [ i \in DOMAIN text |-> IF Allowed(text[i]) THEN text[i] ELSE " " ]

\* text.strip() of a text whose white space is collapsed
strip(text) ==
  LET a == IF text # <<>> /\ text[1] = " " THEN 2 ELSE 1
      b == IF text # <<>> /\ text[Len(text)] = " "
           THEN Len(text) - 1 ELSE Len(text)
  IN IF a > b THEN <<>> ELSE SubSeq(text, a, b)

\* TextSanitizer._post_process_text: white space collapsed, the characters
\* outside the class replaced by a blank, white space collapsed again, and
\* the blanks at both ends stripped.
post_process_text(text) ==
  strip(collapse_whitespace(remove_special(collapse_whitespace(text))))

\* TextSanitizer.clean_text
clean_text(text) ==
  IF text = <<>> THEN <<>>
  ELSE post_process_text(anonymize(text, analyze(text)))

\* The pages of an uploaded file, each a text; a page may be empty.
FilePages ==
  { << <<"skills">> >>,
    << <<"skills", "  ", "john@example.com">> >>,
    << <<>>, <<"skills">>, <<"+380501234567", " ">> >> }

\* "\n\n".join(text_parts) over the pages that hold text
RECURSIVE JoinPages(_)
JoinPages(pages) ==
  IF pages = <<>> THEN <<>>
  ELSE IF Head(pages) = <<>> THEN JoinPages(Tail(pages))
  ELSE IF JoinPages(Tail(pages)) = <<>> THEN Head(pages)
  ELSE Head(pages) \o <<"nl">> \o JoinPages(Tail(pages))

\* File names, and Path(name).suffix.lower() of each.
FileNames == {"cv.pdf", "CV.PDF", "cv.docx", "cv.doc", "cv.txt", "cv"}

SuffixLower(name) ==
  IF name \in {"cv.pdf", "CV.PDF"} THEN ".pdf"
  ELSE IF name = "cv.docx" THEN ".docx"
  ELSE IF name = "cv.doc" THEN ".doc"
  ELSE IF name = "cv.txt" THEN ".txt"
  ELSE ""

\* What load_document may be given: the path exists or not, its name, and,
\* when it exists, whether the parser can read it and the pages it holds.
Paths ==
  [ exists : BOOLEAN, name : FileNames, readable : BOOLEAN,
    pages : FilePages ]

\* Mutant of load_document: the extension is looked at before the path.
load_document_SuffixFirst(path, metadata) ==
  IF SuffixLower(path.name) \notin {".pdf", ".docx", ".doc"}
  THEN [ status |-> "ValueError", documents |-> <<>> ]
  ELSE IF ~path.exists
  THEN [ status |-> "FileNotFoundError", documents |-> <<>> ]
  ELSE IF ~path.readable
  THEN [ status |-> "ParserError", documents |-> <<>> ]
  ELSE [ status |-> "ok",
         documents |-> << [ page_content |-> JoinPages(path.pages),
                            metadata |-> metadata ] >> ]

\* DocumentLoader.load_document(file_path, metadata)
load_document(path, metadata) ==
  IF ~path.exists
  THEN [ status |-> "FileNotFoundError", documents |-> <<>> ]
  ELSE IF SuffixLower(path.name) \notin {".pdf", ".docx", ".doc"}
  THEN [ status |-> "ValueError", documents |-> <<>> ]
  ELSE IF ~path.readable
  THEN [ status |-> "ParserError", documents |-> <<>> ]
  ELSE [ status |-> "ok",
         documents |-> << [ page_content |-> JoinPages(path.pages),
                            metadata |-> metadata ] >> ]

\* One call of DocumentLoader.load_document.
LoadDocument(path) ==
  /\ out' = [ op |-> "load_document", path |-> path,
              status |-> load_document(path, NoCid).status,
              documents |-> load_document(path, NoCid).documents ]
  /\ UNCHANGED <<store, dirExists, matcher, search, mutation>>

\* ============================================================ the routes
\* HybridSearchService.process_resume(file_path, metadata): load, then
\* clean_text on the page_content of every document; the documents are
\* handed to index_documents.
process_resume(path, metadata) ==
  IF load_document(path, metadata).status # "ok"
  THEN [ status |-> load_document(path, metadata).status,
         loaded |-> <<>>, documents |-> <<>> ]
  ELSE [ status |-> "ok",
         loaded |-> load_document(path, metadata).documents,
         documents |->
           [ i \in DOMAIN load_document(path, metadata).documents |->
               [ page_content |->
                   clean_text(load_document(path, metadata)
                                .documents[i].page_content),
                 metadata |-> metadata ] ] ]

\* The try block of process_resume_file: what it raises, or the documents.
\* The temporary file exists and carries the lower-cased extension.
process_resume_file_try(name, readable, pages, cid) ==
  IF SuffixLower(name) \notin {".pdf", ".docx", ".doc"}
  THEN [ raised |-> "HTTPException(400)", loaded |-> <<>>,
         documents |-> <<>> ]
  ELSE [ raised |->
           IF process_resume([exists |-> TRUE, name |-> name,
                              readable |-> readable, pages |-> pages],
                             cid).status = "ok"
           THEN "none"
           ELSE process_resume([exists |-> TRUE, name |-> name,
                                readable |-> readable, pages |-> pages],
                               cid).status,
         loaded |-> process_resume([exists |-> TRUE, name |-> name,
                                    readable |-> readable, pages |-> pages],
                                   cid).loaded,
         documents |-> process_resume([exists |-> TRUE, name |-> name,
                                       readable |-> readable,
                                       pages |-> pages], cid).documents ]

\* process_resume_file: its try block under "except Exception as e: raise
\* HTTPException(status_code=500, ...)"; HTTPException is an Exception.
process_resume_file(b) ==
  IF b.raised # "none"
  THEN [ status |-> 500, cause |-> b.raised, loaded |-> <<>>,
         documents |-> <<>> ]
  ELSE [ status |-> 200, cause |-> "none", loaded |-> b.loaded,
         documents |-> b.documents ]

\* the response of the upload, r, and the index written when it is 200
Uploaded(name, d, r) ==
  /\ IF r.status = 200
     THEN /\ store' = Canon(index_documents(store, HeldIds, FreshMatcher,
                                            <<d>>).store, HeldIds)
          /\ dirExists' = TRUE
     ELSE UNCHANGED <<store, dirExists>>
  /\ out' = [ op |-> "upload", filename |-> name, status |-> r.status,
              cause |-> r.cause, before |-> StoreChunks(store),
              loaded |-> r.loaded, indexed |-> r.documents ]
  /\ UNCHANGED <<matcher, search, mutation>>

\* POST /process-resume with a file of the given name; d: the resume it
\* holds and the candidate_id of the form.
ProcessResumeFile(name, readable, pages, d) ==
  Uploaded(name, d,
           process_resume_file(
             process_resume_file_try(name, readable, pages, d.cid)))

\* Job descriptions of requests: the query they stand for and their text.
JobDescriptions ==
  [ q : {"q1"},
    text : { <<"python">>,
             <<"python", "  ", "fastapi">>,
             <<"python", " ", "john@example.com">> } ]

\* What the external write of the evaluation may meet: the write succeeds,
\* CONVEX_DEPLOYMENT_URL is not set (the constructor raises ValueError), the
\* POST raises a network error, the answer is not 200.
ConvexOutcomes == {"http_200", "no_url", "network_error", "http_500"}

\* job_description_id of a request (None or an id) with the fate of the
\* write it asks for
WriteCases ==
  { [job_description_id |-> "None", convex |-> "http_200"] }
    \cup [ job_description_id : {"jd1"}, convex : ConvexOutcomes ]

\* ConvexClient.save_resume_evaluation: True on 200; a network error is
\* caught and logged inside, as is a non-200 answer.
save_resume_evaluation(convex) == convex = "http_200"

\* Mutant of SaveEvaluation: the inner "except Exception as save_error" is
\* missing.
SaveEvaluation_NoCatch(job_description_id, convex) ==
  IF job_description_id = "None"
  THEN [ raised |-> "none", saved |-> FALSE ]
  ELSE IF convex = "no_url"
  THEN [ raised |-> "ValueError", saved |-> FALSE ]
  ELSE [ raised |-> "none", saved |-> save_resume_evaluation(convex) ]

\* "if request.job_description_id:" and the try block under it, with its
\* handler "except Exception as save_error" that logs a warning.
SaveEvaluation(job_description_id, convex) ==
  IF job_description_id = "None"
  THEN [ raised |-> "none", saved |-> FALSE ]
  ELSE IF convex = "no_url"
  THEN [ raised |-> "none", saved |-> FALSE ]
  ELSE [ raised |-> "none", saved |-> save_resume_evaluation(convex) ]

\* the number of judge calls made for the candidates of order: the loop
\* ends with the first report that raises or that the report model rejects
JudgeCalls(order, judge) ==
  LET bad == { i \in DOMAIN order :
                 \/ generate_analysis_report(judge[order[i]]).raised
                 \/ ~ValidReport(
                       generate_analysis_report(judge[order[i]]).report) }
  IN IF bad = {} THEN Len(order)
     ELSE CHOOSE i \in bad : \A j \in bad : i <= j

\* The texts HybridSearchService.find_matches hands on for job description
\* jd: the query of the chunk search, its job_description argument, and,
\* the chunk search having returned, the job_description of each judge call.
HandedOn(jd, searchOk, order, judge) ==
  [ query |-> clean_text(jd.text),
    ranker_job_description |-> jd.text,
    judge_job_description |->
      IF searchOk THEN [i \in 1..JudgeCalls(order, judge) |-> jd.text]
      ELSE <<>> ]

\* find_matching_candidates once find_matches has ended with found: the
\* write, the response, and the two handlers of the route (ValueError, of
\* which pydantic's ValidationError is a kind, gives 400; any other
\* exception 500).
Response(found, save) ==
  IF found.status = "ok"
  THEN IF save.raised = "none"
       THEN [ status |-> 200, results |-> found.results,
              total_candidates |-> Len(found.results) ]
       ELSE [ status |-> IF save.raised = "ValueError" THEN 400 ELSE 500,
              results |-> <<>>, total_candidates |-> 0 ]
  ELSE [ status |->
           IF found.status \in {"NotIndexed", "ValidationError"}
           THEN 400 ELSE 500,
         results |-> <<>>, total_candidates |-> 0 ]

\* The module function find_matches: [] without an index to load, else the
\* service method on the chunk search cr.
Found(l, cr, k, judge) ==
  IF ~l.ok
  THEN [ status |-> "ok", results |-> <<>>, chunks |-> <<>> ]
  ELSE find_candidates(cr, CandidateOrder(cr.results), k, judge)

\* the request is answered
Answered(request, w, judge, openOk, l, found, searchOk, order) ==
  /\ out' = [ op |-> "match", request |-> request, convex |-> w.convex,
              judge |-> judge, openOk |-> openOk,
              found |-> found.status,
              response |->
                Response(found,
                         SaveEvaluation(request.job_description_id,
                                        w.convex)),
              saved |-> SaveEvaluation(request.job_description_id,
                                       w.convex).saved,
              handed |->
                IF l.ok
                THEN HandedOn(request.job_description, searchOk, order, judge)
                ELSE [ query |-> <<>>, ranker_job_description |-> <<>>,
                       judge_job_description |-> <<>> ],
              searched |-> l.ok ]
  /\ UNCHANGED <<store, dirExists, matcher, search, mutation>>

\* the requests that differ in what the chunk search does not see
AnsweredAll(k, openOk, l, cr, order) ==
  \E jd \in JobDescriptions, t \in {"hybrid", "invalid"}, w \in WriteCases,
     judge \in [Cands -> ServeResponses] :
    Answered([ job_description |-> jd, k |-> k, search_type |-> t,
               job_description_id |-> w.job_description_id ],
             w, judge, openOk, l, Found(l, cr, k, judge),
             cr.status = "ok", order)

FindMatchingLoaded(k, openOk, l, cr) ==
  AnsweredAll(k, openOk, l, cr, CandidateOrder(cr.results))

\* POST /find-matches
FindMatchingCandidates(k, openOk, l) ==
  FindMatchingLoaded(
    k, openOk, l,
    find_matches(store, dirExists, openOk, l.matcher, "q1", k * 3))

\* Largest number of chunks in the collection behind the routes.
MaxApiStore == 4

NextApi ==
  \/ Idle /\ \E path \in Paths : LoadDocument(path)
  \/ Idle /\ \E name \in FileNames, readable \in BOOLEAN,
                pages \in FilePages, d \in InputDocs :
               /\ NChunks(<<d>>) + Len(store) <= MaxApiStore
               /\ ProcessResumeFile(name, readable, pages, d)
  \/ Idle /\ \E c \in Cands : DeleteResume(c, TRUE)
  \/ Idle /\ \E k \in 1..MaxK, o \in BOOLEAN :
               FindMatchingCandidates(
                 k, o, load_existing_index(store, dirExists, o, FreshMatcher))
  \/ Deliver

SpecApi == Init /\ [][NextApi]_vars

\* ------------------------------------------------------------------ C11
\* C11: every text HybridSearchService hands to the index, to the chunk
\* search or to the judge is the clean_text of the raw text it came from:
\* the page_content of every document indexed by an upload, and the query,
\* the job_description argument of the chunk search and the job_description
\* of every judge call of a match request.
C11_SanitizedFirst ==
  /\ (out.op = "upload" /\ out.status = 200)
       => \A i \in DOMAIN out.indexed :
            out.indexed[i].page_content
              = clean_text(out.loaded[i].page_content)
  /\ (out.op = "match" /\ out.searched)
       => /\ out.handed.query = clean_text(out.request.job_description.text)
          /\ out.handed.ranker_job_description
               = clean_text(out.request.job_description.text)
          /\ \A i \in DOMAIN out.handed.judge_job_description :
               out.handed.judge_job_description[i]
                 = clean_text(out.request.job_description.text)

\* ------------------------------------------------------------------ C14
\* C14: an upload whose file name does not end in .pdf, .docx or .doc is
\* answered 400, and nothing is loaded or indexed.
C14_UnsupportedUploadIs400 ==
  (out.op = "upload"
     /\ SuffixLower(out.filename) \notin {".pdf", ".docx", ".doc"})
    => /\ out.status = 400
       /\ out.loaded = <<>> /\ out.indexed = <<>>
       /\ StoreChunks(store) = out.before

\* ------------------------------------------------------------------ C15
\* C15: a find-matches request whose search_type is none of hybrid, vector
\* and keyword is answered 400, whatever the index holds.
C15_InvalidSearchTypeIs400 ==
  (out.op = "match"
     /\ out.request.search_type \notin {"hybrid", "vector", "keyword"})
    => out.response.status = 400

\* ------------------------------------------------------------------ C17
\* C17: load_document raises FileNotFoundError for a path that does not
\* exist, whatever its extension, and ValueError for a file that exists
\* with an extension other than .pdf, .docx and .doc; it returns no
\* Document in either case.
C17_LoaderErrors ==
  /\ (out.op = "load_document" /\ ~out.path.exists)
       => out.status = "FileNotFoundError" /\ out.documents = <<>>
  /\ (out.op = "load_document" /\ out.path.exists
        /\ SuffixLower(out.path.name) \notin {".pdf", ".docx", ".doc"})
       => out.status = "ValueError" /\ out.documents = <<>>

\* A path that does not exist and ends in .txt gave FileNotFoundError.
C17_Witness ==
  /\ out.op = "load_document"
  /\ ~out.path.exists /\ out.path.name = "cv.txt"
  /\ out.status = "FileNotFoundError"

\* ------------------------------------------------------------------ C20
\* the response to the request of out had it asked for no write
ResponseWithoutWrite ==
  Response(
    Found(load_existing_index(store, dirExists, out.openOk, FreshMatcher),
          find_matches(store, dirExists, out.openOk,
                       load_existing_index(store, dirExists, out.openOk,
                                           FreshMatcher).matcher,
                       "q1", out.request.k * 3),
          out.request.k, out.judge),
    SaveEvaluation("None", "http_200"))

\* C20: when the search of a find-matches request succeeded and the write
\* it asked for failed (no client, network error, answer other than 200),
\* the response is 200 and carries the results the same request gets when
\* it asks for no write.
C20_WriteFailureKeepsResponse ==
  (out.op = "match" /\ out.found = "ok"
     /\ out.request.job_description_id # "None"
     /\ out.convex # "http_200")
    => /\ out.response.status = 200
       /\ ~out.saved
       /\ out.response = ResponseWithoutWrite

\* The client could not be constructed, and the response is 200 with a
\* candidate in it.
C20_Witness ==
  /\ out.op = "match" /\ out.found = "ok"
  /\ out.request.job_description_id = "jd1" /\ out.convex = "no_url"
  /\ out.response.status = 200 /\ ~out.saved
  /\ Len(out.response.results) >= 1

\* =========================================================== the sanitizer
\* Largest number of parts a text given to clean_text is put together from.
MaxParts == 3

\* The parts of the texts: a word, white space, a character outside the
\* class, personal data, a phone number whose two groups of digits stand on
\* two lines or on both sides of a "|", and a redaction token.
Parts ==
  { <<"skills">>, <<" ">>, <<"nl">>, <<"|">>, <<"*">>,
    <<"john@example.com">>, <<"https://example.com">>, <<"+380501234567">>,
    <<"+38050", " ", "1234567">>, <<"+38050", "nl", "1234567">>,
    <<"+38050", "|", "1234567">>, <<"<", "EMAIL_REDACTED", ">">> }

RECURSIVE Concat(_)
Concat(ps) == IF ps = <<>> THEN <<>> ELSE Head(ps) \o Concat(Tail(ps))

Texts == { Concat(ps) : ps \in UNION { [1..n -> Parts] : n \in 0..MaxParts } }

\* One call of TextSanitizer.clean_text.
CleanText(text) ==
  /\ out' = [ op |-> "clean", text |-> text, results |-> analyze(text),
              cleaned |-> clean_text(text) ]
  /\ UNCHANGED <<store, dirExists, matcher, search, mutation>>

NextSanitize ==
  \/ Idle /\ \E text \in Texts : CleanText(text)
  \/ Deliver

SpecSanitize == Init /\ [][NextSanitize]_vars

\* sub stands in s, atom by atom
Contains(s, sub) ==
  \E i \in 1..(Len(s) - Len(sub) + 1) : SubSeq(s, i, i + Len(sub) - 1) = sub

\* ------------------------------------------------------------------ C21
\* C21: for every span the analyzer finds in a text given to clean_text, the
\* text returned holds the redaction token of the span's entity type, whole,
\* and does not hold the text of the span.
C21_RedactedAndGone ==
  out.op = "clean"
    => \A r \in out.results :
         /\ Contains(out.cleaned, Token(r.entity_type))
         /\ ~Contains(out.cleaned, SubSeq(out.text, r.start, r.end))

\* ------------------------------------------------------------------ C22
\* C22: clean_text of a text clean_text returned is that text.
C22_Idempotent ==
  out.op = "clean" => clean_text(out.cleaned) = out.cleaned

\* ================================================ re-indexing on one matcher
\* Largest number of entries the collection, or the documents list of the
\* matcher, holds after a call of add_documents.
MaxReindexStore == 12

\* A Document appended to the documents list as it is: part 0 stands for the
\* whole text; the text of a resume of one chunk is the content of its chunk.
RawDocument(d) ==
  [ txt |-> d.text, part |-> IF NParts(d.text) = 1 THEN 1 ELSE 0,
    cid |-> d.cid ]

\* self.hybrid_matcher.documents.extend(documents)
Extended(documents, docs) ==
  documents \o [i \in DOMAIN docs |-> RawDocument(docs[i])]

\* text_splitter.split_documents on the documents list: a chunk is short
\* enough to come back as it is, a whole text is cut into its chunks.
RECURSIVE SplitList(_)
SplitList(l) ==
  IF l = <<>> THEN <<>>
  ELSE (IF Head(l).part = 0
        THEN SplitOne([text |-> Head(l).txt, cid |-> Head(l).cid])
        ELSE <<Head(l)>>) \o SplitList(Tail(l))

\* HybridSearchService.add_documents: the documents are appended to the
\* documents list of the matcher, and index_documents is called with that
\* list, which is self.documents itself.
add_documents(st, held, mr, docs) ==
  IndexWrite(st, held,
             [mr EXCEPT !.documents = Extended(mr.documents, docs)],
             IF mr.vector_store
             THEN StoreChunks(st)
                    \o FillMetadata(Extended(mr.documents, docs),
                                    SplitList(Extended(mr.documents, docs)))
             ELSE FillMetadata(Extended(mr.documents, docs),
                               SplitList(Extended(mr.documents, docs))))

\* HybridSearchService.add_documents(documents) on the long-lived service,
\* r being what it leaves.
AddDocuments(docs, r) ==
  /\ Len(r.store) <= MaxReindexStore
  /\ Len(r.matcher.documents) <= MaxReindexStore
  /\ store' = Canon(r.store, HeldIds)
  /\ dirExists' = TRUE
  /\ matcher' = r.matcher
  /\ out' = [op |-> "index", by |-> "add_documents", status |-> "ok",
             documents |-> r.matcher.documents, docs |-> docs,
             hadIndex |-> matcher.vector_store,
             before |-> StoreChunks(store)]
  /\ UNCHANGED <<search, mutation>>

\* no resume of the batch was handed to the matcher before, and none twice
Unseen(docs) ==
  /\ \A i, j \in DOMAIN docs : i # j => docs[i] # docs[j]
  /\ \A i \in DOMAIN docs :
       /\ \A j \in DOMAIN store : store[j].ch.txt # docs[i].text
       /\ \A j \in DOMAIN matcher.documents :
            matcher.documents[j].txt # docs[i].text

\* the batches of resumes handed to the one matcher
ReindexBatches ==
  UNION { [1..n -> InputDocs \cup ServeDocs] : n \in 1..MaxBatch }

\* One service and its matcher, nothing else writing to the collection;
\* every resume is handed over once.
NextReindex ==
  \/ Idle /\ \E b \in ReindexBatches : Unseen(b) /\ IndexDocuments(b)
  \/ Idle /\ \E b \in ReindexBatches :
               /\ Unseen(b)
               /\ AddDocuments(b, add_documents(store, HeldIds, matcher, b))
  \/ Deliver

SpecReindex == Init /\ [][NextReindex]_vars

\* ------------------------------------------------------------------ C28
\* no two places of l hold the same chunk
OnceEach(l) == \A i, j \in DOMAIN l : i # j => l[i] # l[j]

\* C28: whatever index_documents and add_documents calls were made on the
\* one matcher, each resume handed over once, no chunk stands twice in the
\* documents list of the matcher or in the collection.
C28_NoDuplicateChunks ==
  /\ OnceEach(StoreChunks(store))
  /\ OnceEach(matcher.documents)

\* ------------------------------------------------------------------ C29
\* C29: a chunk cut from a resume that came without a candidate id carries
\* no candidate id after index_documents; it does not take the id of the
\* first resume of the batch.
C29_NoBorrowedCandidateId ==
  (out.op = "index" /\ out.by = "matcher")
    => \A i \in DOMAIN out.documents :
         (\E j \in DOMAIN out.docs :
             /\ out.docs[j].text = out.documents[i].txt
             /\ out.docs[j].cid = NoCid)
           => out.documents[i].cid = NoCid

\* ------------------------------------------------------------------ C30
\* C30: a find-matches request that reaches the search while the persist
\* directory exists and the collection holds no chunk either fails as
\* NotIndexed (answered 400) or succeeds with an empty list (answered 200);
\* it never ends in another error.
C30_EmptyStoreClassified ==
  (out.op = "match" /\ out.searched /\ dirExists /\ store = <<>>)
    => \/ out.found = "NotIndexed" /\ out.response.status = 400
       \/ /\ out.found = "ok" /\ out.response.status = 200
          /\ out.response.results = <<>>

\* ------------------------------------------------------------------ C26
\* the places of the chunk results of out that belong to candidate c
RetrievedOf(c) ==
  { i \in DOMAIN out.chunks : out.chunks[i].cid = c }

\* the sum of the vector, BM25 and hybrid scores the chunks at the places
\* idx report, in thousandths
RECURSIVE ScoreSums(_)
ScoreSums(idx) ==
  IF idx = {} THEN [v |-> 0, b |-> 0, h |-> 0]
  ELSE LET i == CHOOSE i \in idx : TRUE
           rest == ScoreSums(idx \ {i})
       IN [ v |-> rest.v + out.chunks[i].vector_score,
            b |-> rest.b + out.chunks[i].bm25_score,
            h |-> rest.h + out.chunks[i].hybrid_score ]

\* score is a rounding of sum / n to a whole number of thousandths
IsRoundedMean(score, sum, n) ==
  /\ 2 * (score * n - sum) <= n
  /\ 2 * (sum - score * n) <= n

MaxOverfetchStore == 8

\* POST /process-resume with one of the resumes of OverfetchDocs.
UploadLongResume(d) ==
  /\ NChunks(<<d>>) + Len(store) <= MaxOverfetchStore
  /\ ProcessResume(d)

\* Uploads, among them the long resume, and candidate searches, each by a
\* service of its own that loads the collection.
NextOverfetch ==
  \/ Idle /\ \E d \in OverfetchDocs : UploadLongResume(d)
  \/ Idle /\ \E q \in Queries, k \in 1..MaxK, o \in BOOLEAN :
               FindCandidatesRoute(q, k, o)
  \/ Deliver

SpecOverfetch == Init /\ [][NextOverfetch]_vars

\* ------------------------------------------------------------------ C27
\* the candidates that have a chunk in the collection
IndexedCandidates ==
  { store[i].ch.cid : i \in DOMAIN store } \ {NoCid}

\* C27: a candidate search that loaded the collection and got chunks back
\* returns k results of k different candidates whenever the collection
\* holds chunks of k or more candidates.
C27_OverfetchIsEnough ==
  (out.op = "candidates" /\ out.by = "route" /\ out.status = "ok"
     /\ out.chunks # <<>> /\ Cardinality(IndexedCandidates) >= out.k)
    => /\ Len(out.results) = out.k
       /\ \A i, j \in DOMAIN out.results :
            i # j => out.results[i].candidate_id # out.results[j].candidate_id

====
